---- MODULE Spec2Model ----
(***************************************************************************)
(* Model of the voice-assistant orchestration core of logentic:            *)
(*   src/voice-assistant/src/pipeline/orchestrator.py  VoiceAssistantPipeline *)
(*   src/voice-assistant/src/pipeline/intent.py        IntentDetector      *)
(* and of the call contract of the engines the pipeline drives             *)
(* (WhisperASR, IndicTranslator, QwenLLM, TTSEngine).                      *)
(*                                                                         *)
(* One VoiceAssistantPipeline object is modelled, driven by one caller     *)
(* that issues load_components / process / process_text /                  *)
(* clear_conversation calls one after the other.  A call is split into     *)
(* the steps of its source (one step per pipeline stage, one per engine    *)
(* loaded by load_components).  What an engine returns, whether it raises  *)
(* and how long it takes are chosen nondeterministically from small sets.  *)
(***************************************************************************)
EXTENDS Integers, Sequences, FiniteSets, TLC

(***************************************************************************)
(* Values                                                                  *)
(***************************************************************************)

\* Python's None (Optional fields of PipelineResult, unset arguments).
None == "<None>"

\* No exception is pending.
NoExc == "<no exception>"

\* A truthy argument that is not a str (process(text_input=123)): the code
\* never checks the type of text_input.
NonStr == "<int 123>"

\* Largest number of clock ticks (seconds of time.perf_counter) one engine
\* step may take; a step takes no time or this long.
MaxTick == 1

\* Largest number of remembered chat turns with which the caller still
\* starts another process call.
MaxTurns == 1

\* Largest max_memory_messages a QwenLLM used on its own is built with, and
\* the largest number of chats it remembers between two clear_history calls.
MaxMemory == 2
MaxChats == 3

\* What is given to an IntentDetector used on its own, and what its LLM may
\* answer (the lines of the response).
DetectTexts ==
    {"hello how are you", "Hello How Are You", "what time is it",
     "is it hot or cold today", "hi what is it who", "open the clock",
     "okay", "mmm"}
DetectEnglish == {None, "", "okay", "set reminder to play"}
LlmOutputs ==
    {<<"INTENT: weather", "ENTITIES: none", "DESCRIPTION: asks about rain">>,
     <<"  INTENT:  Greeting  ">>,
     <<"INTENT: banana">>,
     <<"INTENT: banana", "ENTITIES: city: Kochi, when: now",
       "DESCRIPTION: wants a banana">>,
     <<"I think this is a greeting">>,
     <<"intent: time">>,
     <<"DESCRIPTION: just chatting">>}

\* What is given to an IntentClassifier.
NluTexts ==
    {"hello how are you", "what is the weather today", "remind me to call mom",
     "Hello", "hi", "", "ok", "what time is it", "weather time",
     "Set a REMINDER on the schedule", "play a song", "PLAY MUSIC SONG",
     "turn on the light and the fan", "search the weather", "goodbye",
     "hello hi namaste vanakkam weather temperature rain",
     "weather temperature rain hello hi namaste vanakkam",
     "help me find the door", "bye, see you", "good night"}

\* What is given to an AgentOrchestrator.
AgentInputs ==
    {"What is the weather today?", "Remind me to call mom at 5pm",
     "Turn on the living room lights", "Hello, how are you?", "Hello there",
     "Add a task", "tell me a joke", "open the door", "thanks", "namaskaram"}

\* What is said to a QwenLLM used on its own.
UserInputs == {"hi", "what time is it", "bye"}

\* QwenLLM.__init__: the default of max_memory_messages.
DefaultMemory == 10

\* QwenLLM.DEFAULT_SYSTEM_PROMPT, and the prompt _load_llm sets in its place.
DEFAULT_SYSTEM_PROMPT == "<You are a helpful voice assistant>"
VoicePrompt == "<You are a helpful voice assistant that speaks Malayalam>"

\* str(e) of the exceptions an engine or a model loader may raise.  The
\* empty string is the message of an exception built without arguments
\* (AssertionError from a bare assert, NotImplementedError(), ...).
ErrMsgs == {"", "engine failure"}

\* str(e) of the ImportError of a "from ..pkg import Engine" line.
ImportErrMsgs == {"cannot import name"}

\* Arguments of process.
AudioPaths == {None, "q.wav"}
TextInputs == {None, "", "Hello", NonStr}
Languages == {"ml", "en"}

\* What the engines may return.
AsrTexts == {"samayam"}
EnTexts == {"what time is it", "okay"}
Replies == {"It is noon"}
MlReplies == {"ucha aayi"}
Audios == {"<pcm samples>"}

\* The five engine handles of the pipeline (self._asr, self._translator,
\* self._llm, self._tts, self._intent_detector).
Engines == {"asr", "translator", "llm", "tts", "intent_detector"}

\* bool(x) of an Optional[str] argument or a str.
Truthy(x) == x # None /\ x # ""

(***************************************************************************)
(* IntentDetector (keyword path; the pipeline builds it with use_llm=False) *)
(***************************************************************************)

Upper == "ABCDEFGHIJKLMNOPQRSTUVWXYZ"
LowerAlpha == "abcdefghijklmnopqrstuvwxyz"

\* One character of str.lower().
LowerChar(c) ==
    IF \E i \in 1..Len(Upper) : SubSeq(Upper, i, i) = c
    THEN LET i == CHOOSE j \in 1..Len(Upper) : SubSeq(Upper, j, j) = c
         IN SubSeq(LowerAlpha, i, i)
    ELSE c

RECURSIVE Lower(_)
\* str.lower()
Lower(s) ==
    IF Len(s) = 0 THEN ""
    ELSE LowerChar(SubSeq(s, 1, 1)) \o Lower(SubSeq(s, 2, Len(s)))

\* kw in text  (substring test)
Contains(kw, text) ==
    \E i \in 1..(Len(text) - Len(kw) + 1) : SubSeq(text, i, i + Len(kw) - 1) = kw

\* The keyword table with its categories in the order IntentType declares
\* them (greeting, question, command, weather, time, reminder, calculation).
IntentPatternsInEnumOrder == <<
    [type |-> "greeting",
     keywords |-> <<"hello", "hi", "hey", "good morning", "good evening",
                    "namaste", "how are you", "what's up">>],
    [type |-> "question",
     keywords |-> <<"what", "who", "where", "when", "why", "how", "which",
                    "is it", "are you", "can you", "could you", "tell me">>],
    [type |-> "command",
     keywords |-> <<"turn on", "turn off", "switch", "open", "close",
                    "start", "stop", "play", "pause", "set">>],
    [type |-> "weather",
     keywords |-> <<"weather", "temperature", "rain", "sunny", "cloudy",
                    "forecast", "climate", "hot", "cold">>],
    [type |-> "time",
     keywords |-> <<"time", "what time", "clock", "hour", "date", "today",
                    "day", "month", "year">>],
    [type |-> "reminder",
     keywords |-> <<"remind", "reminder", "alarm", "schedule", "appointment",
                    "notify", "alert", "set reminder">>],
    [type |-> "calculation",
     keywords |-> <<"calculate", "math", "plus", "minus", "multiply", "divide",
                    "sum", "total", "percentage", "how much is">>]
>>

\* IntentDetector.INTENT_PATTERNS, in declaration (dict insertion) order.
INTENT_PATTERNS == <<
    [type |-> "greeting",
     keywords |-> <<"hello", "hi", "hey", "good morning", "good evening",
                    "namaste", "how are you", "what's up">>],
    [type |-> "weather",
     keywords |-> <<"weather", "temperature", "rain", "sunny", "cloudy",
                    "forecast", "climate", "hot", "cold">>],
    [type |-> "time",
     keywords |-> <<"time", "what time", "clock", "hour", "date", "today",
                    "day", "month", "year">>],
    [type |-> "reminder",
     keywords |-> <<"remind", "reminder", "alarm", "schedule", "appointment",
                    "notify", "alert", "set reminder">>],
    [type |-> "calculation",
     keywords |-> <<"calculate", "math", "plus", "minus", "multiply", "divide",
                    "sum", "total", "percentage", "how much is">>],
    [type |-> "question",
     keywords |-> <<"what", "who", "where", "when", "why", "how", "which",
                    "is it", "are you", "can you", "could you", "tell me">>],
    [type |-> "command",
     keywords |-> <<"turn on", "turn off", "switch", "open", "close",
                    "start", "stop", "play", "pause", "set">>]
>>

\* sum(1 for kw in keywords if kw in text_lower)
Score(keywords, text) ==
    Cardinality({k \in 1..Len(keywords) : Contains(keywords[k], text)})

RECURSIVE MaxByScoreLast(_, _, _)
\* A max that moves on to a later key of equal score: the last of the
\* maximal keys.
MaxByScoreLast(scores, i, best) ==
    IF i > Len(scores) THEN best
    ELSE MaxByScoreLast(scores, i + 1,
                        IF scores[i].score >= scores[best].score THEN i ELSE best)

RECURSIVE MaxByScore(_, _, _)
\* max(scores, key=scores.get) from position i on, best being the maximal
\* key so far: a later key replaces it only with a strictly higher score,
\* so the first of the maximal keys is returned.
MaxByScore(scores, i, best) ==
    IF i > Len(scores) THEN best
    ELSE MaxByScore(scores, i + 1,
                    IF scores[i].score > scores[best].score THEN i ELSE best)

\* IntentDetector._keyword_detect: the scores dict holds, in the order of
\* INTENT_PATTERNS, the categories with a keyword in the lower-cased text;
\* None when it is empty, else its max by score.
keyword_detect(text) ==
    LET text_lower == Lower(text)
        all == [i \in 1..Len(INTENT_PATTERNS) |->
                   [type |-> INTENT_PATTERNS[i].type,
                    score |-> Score(INTENT_PATTERNS[i].keywords, text_lower)]]
        scores == SelectSeq(all, LAMBDA e : e.score > 0)
    IN IF scores = <<>> THEN None
       ELSE scores[MaxByScore(scores, 1, 1)].type

\* IntentDetector._get_intent_description
get_intent_description(intent_type) ==
    CASE intent_type = "greeting" -> "User is greeting or starting a conversation"
      [] intent_type = "weather" -> "User is asking about weather or climate"
      [] intent_type = "time" -> "User is asking about time or date"
      [] intent_type = "reminder" -> "User wants to set a reminder or alarm"
      [] intent_type = "calculation" -> "User wants to perform a calculation"
      [] intent_type = "question" -> "User is asking a question"
      [] intent_type = "command" -> "User is giving a command or instruction"
      [] intent_type = "general" -> "General conversation or query"
      [] OTHER -> "General query"

\* A detect that answers with the default of the LLM path whatever the text.
detect_llm_default(text, english_text) ==
    [type |-> "general", confidence |-> 50, entities |-> {},
     description |-> "General query"]

\* The text detect analyses: english_text when it is truthy, else text.
analysis_source(text, english_text) ==
    IF Truthy(english_text) THEN english_text ELSE text

\* detect raises AttributeError when the text it lower-cases is not a str.
detect_raises(text, english_text) == analysis_source(text, english_text) = NonStr

\* IntentDetector.detect with use_llm = False.  Confidence is in hundredths
\* (80 is 0.8, 50 is 0.5); entities is the empty dict.
detect(text, english_text) ==
    LET analysis_text == Lower(analysis_source(text, english_text))
        detected_intent == keyword_detect(analysis_text)
    IN IF detected_intent # None /\ detected_intent # "unknown"
       THEN [type |-> detected_intent, confidence |-> 80, entities |-> {},
             description |-> get_intent_description(detected_intent)]
       ELSE [type |-> "general", confidence |-> 50, entities |-> {},
             description |-> "General conversation or query"]

(***************************************************************************)
(* IntentDetector, model fallback (use_llm=True)                            *)
(***************************************************************************)

\* The values of IntentType.
IntentTypeValues ==
    {"greeting", "question", "command", "information", "task", "weather",
     "time", "reminder", "calculation", "translation", "general", "unknown"}

\* s.startswith(p)
StartsWith(s, p) == Len(s) >= Len(p) /\ SubSeq(s, 1, Len(p)) = p

RECURSIVE LStrip(_)
LStrip(s) ==
    IF Len(s) > 0 /\ SubSeq(s, 1, 1) = " " THEN LStrip(SubSeq(s, 2, Len(s)))
    ELSE s

RECURSIVE RStrip(_)
RStrip(s) ==
    IF Len(s) > 0 /\ SubSeq(s, Len(s), Len(s)) = " "
    THEN RStrip(SubSeq(s, 1, Len(s) - 1))
    ELSE s

\* s.strip()
Strip(s) == RStrip(LStrip(s))

RECURSIVE Remove(_, _)
\* s.replace(old, ""): every occurrence of old taken out, left to right.
Remove(s, old) ==
    IF Len(s) < Len(old) THEN s
    ELSE IF StartsWith(s, old) THEN Remove(SubSeq(s, Len(old) + 1, Len(s)), old)
    ELSE SubSeq(s, 1, 1) \o Remove(SubSeq(s, 2, Len(s)), old)

\* Where the one-character separator sep first occurs in s; 0 when nowhere.
Find(s, sep) ==
    IF \E i \in 1..Len(s) : SubSeq(s, i, i) = sep
    THEN CHOOSE i \in 1..Len(s) :
             /\ SubSeq(s, i, i) = sep
             /\ \A j \in 1..(i - 1) : SubSeq(s, j, j) # sep
    ELSE 0

RECURSIVE Split(_, _)
\* s.split(sep) for a one-character separator.
Split(s, sep) ==
    LET i == Find(s, sep)
    IN IF i = 0 THEN <<s>>
       ELSE <<SubSeq(s, 1, i - 1)>> \o Split(SubSeq(s, i + 1, Len(s)), sep)

\* entities[k] = v on a dict held as a set of <<key, value>> pairs.
SetItem(entities, k, v) == {e \in entities : e[1] # k} \cup {<<k, v>>}

RECURSIVE AddPairs(_, _, _)
\* for pair in pairs: if ":" in pair: k, v = pair.split(":", 1);
\* entities[k.strip()] = v.strip()
AddPairs(entities, pairs, i) ==
    IF i > Len(pairs) THEN entities
    ELSE LET pair == pairs[i]
             c == Find(pair, ":")
         IN AddPairs(IF c = 0 THEN entities
                     ELSE SetItem(entities, Strip(SubSeq(pair, 1, c - 1)),
                                  Strip(SubSeq(pair, c + 1, Len(pair)))),
                     pairs, i + 1)

\* The body of the loop of _parse_llm_response for one line.
ParseLine(acc, raw) ==
    LET line == Strip(raw)
    IN IF StartsWith(line, "INTENT:")
       THEN LET intent_str == Lower(Strip(Remove(line, "INTENT:")))
            IN [acc EXCEPT !.type = IF intent_str \in IntentTypeValues
                                    THEN intent_str ELSE "general"]
       ELSE IF StartsWith(line, "ENTITIES:")
       THEN LET entities_str == Strip(Remove(line, "ENTITIES:"))
            IN IF Lower(entities_str) # "none"
               THEN [acc EXCEPT !.entities =
                                    AddPairs(@, Split(entities_str, ","), 1)]
               ELSE acc
       ELSE IF StartsWith(line, "DESCRIPTION:")
       THEN [acc EXCEPT !.description = Strip(Remove(line, "DESCRIPTION:"))]
       ELSE acc

RECURSIVE ParseLines(_, _, _)
ParseLines(acc, lines, i) ==
    IF i > Len(lines) THEN acc
    ELSE ParseLines(ParseLine(acc, lines[i]), lines, i + 1)

\* IntentDetector._parse_llm_response on the lines of the response
\* (response.strip().split("\n")); confidence 85 is 0.85.
parse_llm_response(lines) ==
    ParseLines([type |-> "general", confidence |-> 85, entities |-> {},
                description |-> "General query"], lines, 1)

\* The Intent of _llm_detect when it has no LLM or the chat raised.
LlmDetectDefault ==
    [type |-> "general", confidence |-> 50, entities |-> {},
     description |-> "General query"]

\* No detect call was made yet.
NoDetection ==
    [text |-> None, english_text |-> None, keyword |-> None,
     chat_called |-> FALSE, response |-> <<>>, chat_exc |-> NoExc,
     escaped |-> NoExc, intent |-> LlmDetectDefault, returned |-> FALSE]

(***************************************************************************)
(* AgentOrchestrator: the nodes of the agent graph                         *)
(***************************************************************************)

\* any(word in user_input for word in words)
AnyIn(words, user_input) == \E w \in words : Contains(w, user_input)

\* AgentOrchestrator._classify_intent: the intent it stores in the state.
classify_intent(user_input) ==
    LET lowered == Lower(user_input)
    IN IF AnyIn({"what", "who", "where", "when", "how", "why", "tell me"},
                lowered)
       THEN "information_query"
       ELSE IF AnyIn({"remind", "schedule", "task", "todo", "calendar"}, lowered)
       THEN "task_management"
       ELSE IF AnyIn({"light", "fan", "ac", "door", "temperature"}, lowered)
       THEN "smart_home"
       ELSE "general_chat"

\* AgentOrchestrator._route_to_agent: state.get("intent", "unknown")
route_to_agent(state) == state.intent

\* The path map of the conditional edges out of intent_classifier.
ConditionalEdges ==
    [r \in {"information_query", "task_management", "general_chat", "unknown"}
        |-> CASE r = "information_query" -> "info_agent"
              [] r = "task_management" -> "task_agent"
              [] OTHER -> "chat_agent"]

\* The process call's initial_state.
initial_state(user_input, language) ==
    [user_input |-> user_input, language |-> language, intent |-> None,
     entities |-> <<>>, agent_outputs |-> <<>>, final_response |-> None,
     error |-> None]

\* state["agent_outputs"][name] = {"response": response, ...}: the dict is
\* held as the sequence of its items in insertion order; a key already there
\* keeps its place.
SetOutput(outputs, name, response) ==
    IF \E i \in 1..Len(outputs) : outputs[i].agent = name
    THEN [i \in 1..Len(outputs) |->
             IF outputs[i].agent = name
             THEN [agent |-> name, response |-> response] ELSE outputs[i]]
    ELSE Append(outputs, [agent |-> name, response |-> response])

\* The response each handler puts in its output.
HandlerResponse(name, user_input) ==
    CASE name = "info_agent" -> "[Info Agent] Processing query: " \o user_input
      [] name = "task_agent" ->
             "[Task Agent] Processing task request: " \o user_input
      [] OTHER -> "[Chat Agent] I understand you said: " \o user_input

\* _run_info_agent, _run_task_agent, _run_chat_agent
run_agent(name, state) ==
    [state EXCEPT !.agent_outputs =
                      SetOutput(@, name, HandlerResponse(name, state.user_input))]

RECURSIVE Join(_, _)
\* " ".join(responses[i:])
Join(responses, i) ==
    IF i > Len(responses) THEN ""
    ELSE IF i = Len(responses) THEN responses[i]
    ELSE responses[i] \o " " \o Join(responses, i + 1)

\* The responses of the outputs that have the key "response" (None stands
\* for an output without it), in the order of outputs.items().
Responses(outputs) ==
    LET with == SelectSeq(outputs, LAMBDA o : o.response # None)
    IN [i \in 1..Len(with) |-> with[i].response]

\* _generate_response falling back whenever the joined text is empty.
generate_response_if_text(state) ==
    LET responses == Responses(state.agent_outputs)
    IN [state EXCEPT !.final_response =
                         IF Join(responses, 1) # "" THEN Join(responses, 1)
                         ELSE "I couldn't process your request."]

\* AgentOrchestrator._generate_response
generate_response(state) ==
    LET responses == Responses(state.agent_outputs)
    IN [state EXCEPT !.final_response =
                         IF responses # <<>> THEN Join(responses, 1)
                         ELSE "I couldn't process your request."]

\* No process call has returned.
NoResult ==
    [response |-> None, intent |-> None, language |-> None, exc |-> NoExc]

(***************************************************************************)
(* nlu.IntentClassifier                                                    *)
(***************************************************************************)

\* IntentClassifier.INTENTS, in the order of the dict.
INTENTS ==
    << [intent |-> "greeting",
        keywords |-> {"hello", "hi", "namaste", "vanakkam", "namaskar"}],
       [intent |-> "farewell",
        keywords |-> {"bye", "goodbye", "see you", "alvida"}],
       [intent |-> "weather",
        keywords |-> {"weather", "temperature", "rain", "mausam"}],
       [intent |-> "time",
        keywords |-> {"time", "samay", "clock", "what time"}],
       [intent |-> "reminder",
        keywords |-> {"remind", "reminder", "yaad dilao", "schedule"}],
       [intent |-> "search",
        keywords |-> {"search", "find", "look for", "dhundho"}],
       [intent |-> "play_music",
        keywords |-> {"play", "music", "song", "gaana"}],
       [intent |-> "smart_home",
        keywords |-> {"light", "fan", "ac", "door", "turn on", "turn off"}],
       [intent |-> "help",
        keywords |-> {"help", "madad", "assist", "sahayata"}] >>

\* sum(1 for kw in keywords if kw in text)
Matches(keywords, text) == Cardinality({kw \in keywords : Contains(kw, text)})

\* min(matches / len(keywords) + 0.3, 1.0), in sixtieths: the lists have 4, 5
\* or 6 keywords, so every quotient is a whole number of sixtieths.
Confidence(matches, keywords) ==
    LET c == (matches * 60) \div Cardinality(keywords) + 18
    IN IF c < 60 THEN c ELSE 60

RECURSIVE KeywordBestLast(_, _, _)
\* The loop of _keyword_classify replacing the best on an equal confidence.
KeywordBestLast(text, i, best) ==
    IF i > Len(INTENTS) THEN best
    ELSE LET matches == Matches(INTENTS[i].keywords, text)
             confidence == Confidence(matches, INTENTS[i].keywords)
         IN KeywordBestLast(text, i + 1,
                IF matches > 0 /\ confidence >= best.confidence
                THEN [intent |-> INTENTS[i].intent, confidence |-> confidence]
                ELSE best)

RECURSIVE KeywordBest(_, _, _)
\* The loop of _keyword_classify from the i-th intent on, best so far given.
KeywordBest(text, i, best) ==
    IF i > Len(INTENTS) THEN best
    ELSE LET matches == Matches(INTENTS[i].keywords, text)
             confidence == Confidence(matches, INTENTS[i].keywords)
         IN KeywordBest(text, i + 1,
                IF matches > 0 /\ confidence > best.confidence
                THEN [intent |-> INTENTS[i].intent, confidence |-> confidence]
                ELSE best)

\* IntentClassifier._keyword_classify (the entities are left out)
keyword_classify(text, language) ==
    KeywordBest(text, 1, [intent |-> "unknown", confidence |-> 0])
        @@ [language |-> language]

\* IntentClassifier._ml_classify and _llm_classify
ml_classify(text, language) == keyword_classify(Lower(text), language)

\* IntentClassifier.classify
classify(type, text, language) ==
    LET text_lower == Lower(text)
    IN IF type = "keyword" THEN keyword_classify(text_lower, language)
       ELSE ml_classify(text, language)

\* classify has not been called.
NoClassified ==
    [text |-> None, intent |-> None, confidence |-> 0, language |-> None]

(***************************************************************************)
(* State                                                                   *)
(***************************************************************************)

\* The two callers of process that run at once.
Threads == {1, 2}

\* The engines a process call with audio loads and uses, in stage order.
StageEngines == <<"asr", "translator", "llm", "tts">>

\* No chat has been made.
NoChat ==
    [user_input |-> None, remember |-> FALSE, messages |-> <<>>,
     exc |-> NoExc, content |-> None]

\* A caller that has not entered process.
NoThread ==
    [at |-> "idle", stage |-> 1, built |-> 0, used |-> [e \in Engines |-> 0]]

VARIABLES
    asr_engine,         \* self.asr_engine, fixed by __init__
    detect_intent,      \* self.detect_intent, fixed by __init__
    handle,             \* the five engine handles; 0 is None, n > 0 the n-th
                        \* instance built for that handle
    asr_model,          \* self._asr.model is not None
    translator_models,  \* keys of self._translator.models
    llm_model,          \* self._llm.model is not None
    system_prompt,      \* self._llm.system_prompt (None while no QwenLLM exists)
    max_memory_messages,    \* self._llm.max_memory_messages
    conversation_history,   \* self._llm.conversation_history
    use_llm,            \* of an IntentDetector used on its own: self.use_llm
    detector_llm,       \* its self._llm: 0 is None, 1 the QwenLLM it built
    detector_llm_model, \* whether that QwenLLM has its model loaded
    detection,          \* its last detect call: arguments, what was
                        \* computed on the way and what came out
    graph,              \* of an AgentOrchestrator: self.graph is a compiled
                        \* LangGraph workflow (FALSE while it is None)
    agent_pc,           \* where its process call is: "idle", the node about
                        \* to run, "return", "returned" or "raised"
    agent_state,        \* the AgentState handed from node to node
    agent_ran,          \* the nodes that ran in the call, in order
    agent_result,       \* what process returned, or the exception it raised
    model_type,         \* of an IntentClassifier: 'keyword', 'ml' or 'llm'
    classified,         \* the text last given to its classify and the IntentResult
    threads,            \* two callers in process at once: where each is in
                        \* a _load_* helper, the instance it built and the
                        \* instances it used
    chat_call,          \* the last chat of a QwenLLM used on its own: its
                        \* arguments, the messages built for the model and
                        \* how it ended
    remembered,         \* every message appended to the history since it was
                        \* last emptied, trimmed or not, in order
    pc,                 \* the caller's position: "idle", the step of the call
                        \* in progress, or "returned" when the call is over
    op,                 \* the public method called, "none" between calls
    args,               \* arguments of the process call
    result,             \* the PipelineResult of the process call in progress
                        \* or returned last (a fresh record otherwise)
    now,                \* time.perf_counter(), counted from total_start
    constructed,        \* per handle, how many instances were ever built
    trace,              \* what the current call did, in order
    raised,             \* the exception raised inside the current call
    outcome,            \* of the call: "running", "returned" or "raised" (to
                        \* the caller); "none" between calls
    entry               \* the handles as they were when the call was entered

llm_fields == <<system_prompt, max_memory_messages, conversation_history,
                remembered>>
engine_vars == <<handle, asr_model, translator_models, llm_model, llm_fields,
                 constructed>>
config_vars == <<asr_engine, detect_intent>>
detector_vars == <<use_llm, detector_llm, detector_llm_model, detection>>
\* The objects used on their own, which no pipeline operation touches.
agent_vars == <<graph, agent_pc, agent_state, agent_ran, agent_result>>
nlu_vars == <<model_type, classified>>
race_vars == <<threads>>
qwen_call_vars == <<chat_call>>
standalone_vars ==
    <<detector_vars, agent_vars, nlu_vars, race_vars, qwen_call_vars>>
call_vars == <<pc, op, args, result, now, trace, raised, outcome, entry>>
vars == <<asr_engine, detect_intent, handle, asr_model, translator_models,
          llm_model, system_prompt, max_memory_messages, conversation_history,
          remembered, use_llm, detector_llm, detector_llm_model, detection,
          model_type, classified,
          threads,
          chat_call,
          graph, agent_pc, agent_state, agent_ran, agent_result, pc, op,
          args, result, now, constructed, trace, raised,
          outcome, entry>>

\* No exception was raised in the call.
NoRaise == [at |-> "none", msg |-> NoExc]

\* PipelineResult(audio_input=audio_path): the dataclass defaults.
PipelineResult(audio_path) ==
    [audio_input |-> audio_path,
     malayalam_text |-> "", asr_time_ms |-> 0,
     english_text |-> "", translation_ml_en_time_ms |-> 0,
     intent_type |-> "", intent_description |-> "",
     intent_confidence |-> 0, intent_entities |-> {},
     english_response |-> "", llm_time_ms |-> 0,
     malayalam_response |-> "", translation_en_ml_time_ms |-> 0,
     audio_output |-> None, tts_time_ms |-> 0,
     total_time_ms |-> 0, success |-> TRUE, error |-> None]

NoArgs == [audio_path |-> None, text_input |-> None, input_language |-> "ml"]

\* VoiceAssistantPipeline.__init__: every handle None, nothing built.
Init ==
    /\ asr_engine \in {"whisper", "meta_asr"}
    /\ detect_intent \in BOOLEAN
    /\ handle = [e \in Engines |-> 0]
    /\ asr_model = FALSE
    /\ translator_models = {}
    /\ llm_model = FALSE
    /\ system_prompt = None
    /\ max_memory_messages = DefaultMemory
    /\ conversation_history = <<>>
    /\ remembered = <<>>
    /\ use_llm = FALSE
    /\ detector_llm = 0
    /\ detector_llm_model = FALSE
    /\ detection = NoDetection
    /\ graph = FALSE
    /\ agent_pc = "idle"
    /\ agent_state = initial_state("", "en")
    /\ agent_ran = <<>>
    /\ agent_result = NoResult
    /\ chat_call = NoChat
    /\ threads = [t \in Threads |-> NoThread]
    /\ model_type = "keyword"
    /\ classified = NoClassified
    /\ pc = "idle"
    /\ op = "none"
    /\ args = NoArgs
    /\ result = PipelineResult(None)
    /\ now = 0
    /\ constructed = [e \in Engines |-> 0]
    /\ trace = <<>>
    /\ raised = NoRaise
    /\ outcome = "none"
    /\ entry = [e \in Engines |-> 0]

(***************************************************************************)
(* The engines: what a call on them can do.  Each operator is the set of   *)
(* possible outcomes; exc = NoExc means the call returned.                 *)
(***************************************************************************)

\* WhisperASR.load_model: sets self.model, or raises and leaves it None.
whisper_load_model ==
    {[model |-> TRUE, exc |-> NoExc]}
        \cup {[model |-> FALSE, exc |-> m] : m \in ErrMsgs}

\* WhisperASR.transcribe: loads the model first when it is not loaded.
transcribe(model) ==
    LET loaded == IF model THEN {[model |-> TRUE, exc |-> NoExc]}
                  ELSE whisper_load_model
    IN UNION {
        IF l.exc # NoExc
        THEN {[model |-> l.model, exc |-> l.exc, text |-> None]}
        ELSE {[model |-> TRUE, exc |-> m, text |-> None] : m \in ErrMsgs}
                 \cup {[model |-> TRUE, exc |-> NoExc, text |-> t] : t \in AsrTexts}
        : l \in loaded}

RECURSIVE load_models(_, _)
\* IndicTranslator.load_models: loads the directions not loaded yet, in
\* order; a failure leaves the directions loaded before it in place.
load_models(models, directions) ==
    IF directions = <<>> THEN {[models |-> models, exc |-> NoExc]}
    ELSE IF Head(directions) \in models
    THEN load_models(models, Tail(directions))
    ELSE {[models |-> models, exc |-> m] : m \in ErrMsgs}
             \cup load_models(models \cup {Head(directions)}, Tail(directions))

\* IndicTranslator.translate: picks the direction from source_lang, loads
\* its model when missing, translates.  A text that is not a str fails at
\* the latest in text[:50] of the closing log line.
translate(models, text, source_lang) ==
    LET direction == IF source_lang = "en" THEN "en-indic" ELSE "indic-en"
        loaded == IF direction \in models
                  THEN {[models |-> models, exc |-> NoExc]}
                  ELSE load_models(models, <<direction>>)
        outputs == IF source_lang = "en" THEN MlReplies ELSE EnTexts
    IN UNION {
        IF l.exc # NoExc
        THEN {[models |-> l.models, exc |-> l.exc, text |-> None]}
        ELSE {[models |-> l.models, exc |-> m, text |-> None] : m \in ErrMsgs}
                 \cup (IF text = NonStr
                       THEN {[models |-> l.models,
                              exc |-> "'int' object is not subscriptable",
                              text |-> None]}
                       ELSE {[models |-> l.models, exc |-> NoExc, text |-> t]
                                : t \in outputs})
        : l \in loaded}

\* IndicTranslator.ml_to_en
ml_to_en(models, text) == translate(models, text, "ml")

\* IndicTranslator.en_to_ml
en_to_ml(models, text) == translate(models, text, "en")

\* QwenLLM.load_model
qwen_load_model ==
    {[model |-> TRUE, exc |-> NoExc]}
        \cup {[model |-> FALSE, exc |-> m] : m \in ErrMsgs}

\* Message(role=..., content=...)
Message(role, content) == [role |-> role, content |-> content]

\* Python's h[-k:] for k >= 0: the last k items, all of h when it has no
\* more than k, and all of h when k = 0 (h[-0:] is h[0:]).
LastItems(h, k) ==
    IF k = 0 \/ Len(h) <= k THEN h ELSE SubSeq(h, Len(h) - k + 1, Len(h))

\* A chat that remembers the reply without the user's message.
remember_reply_only(history, limit, user_input, response_text) ==
    history \o <<Message("assistant", response_text)>>

\* QwenLLM.chat, "Update conversation history": both messages appended,
\* then the history cut to its last 2 * max_memory_messages items when it
\* has more than that.
remember(history, limit, user_input, response_text) ==
    LET h == history \o <<Message("user", user_input),
                          Message("assistant", response_text)>>
    IN IF Len(h) > limit * 2 THEN LastItems(h, limit * 2) ELSE h

\* QwenLLM.chat: loads the model when missing; user_input[:50] in the log
\* line raises for an input that is not a str; then generates.
chat(model, user_input) ==
    LET loaded == IF model THEN {[model |-> TRUE, exc |-> NoExc]}
                  ELSE qwen_load_model
    IN UNION {
        IF l.exc # NoExc
        THEN {[model |-> l.model, exc |-> l.exc, content |-> None]}
        ELSE IF user_input = NonStr
        THEN {[model |-> TRUE, exc |-> "'int' object is not subscriptable",
               content |-> None]}
        ELSE {[model |-> TRUE, exc |-> m, content |-> None] : m \in ErrMsgs}
                 \cup {[model |-> TRUE, exc |-> NoExc, content |-> r] : r \in Replies}
        : l \in loaded}

\* QwenLLM._build_messages: the system prompt, history[-max_memory_messages:],
\* the user input.
build_messages(prompt, history, limit, user_input) ==
    <<Message("system", prompt)>> \o LastItems(history, limit)
        \o <<Message("user", user_input)>>

\* A chat that appends the user's message before it generates.
chat_history_user_first(history, limit, user_input, flag, o) ==
    IF o.exc = NoExc /\ flag
    THEN remember(history, limit, user_input, o.content)
    ELSE history \o <<Message("user", user_input)>>

\* The history after chat(user_input, remember=flag) ended as o: both
\* messages are appended after the generation, inside "if remember".
chat_history(history, limit, user_input, flag, o) ==
    IF o.exc = NoExc /\ flag
    THEN remember(history, limit, user_input, o.content)
    ELSE history

\* QwenLLM.clear_history: the history it leaves.
clear_history == <<>>

\* TTSEngine.synthesize
synthesize(text) ==
    {[exc |-> m, audio |-> None] : m \in ErrMsgs}
        \cup {[exc |-> NoExc, audio |-> a] : a \in Audios}

(***************************************************************************)
(* VoiceAssistantPipeline: the lazy loaders.  Each is the set of outcomes  *)
(* of one call: the handle afterwards (h), whether an instance was built,  *)
(* the engine's model state and the exception raised, if any.              *)
(***************************************************************************)

\* _load_asr: returns at once when the handle is set; builds a WhisperASR,
\* stores it in the handle and only then loads its model; raises ValueError
\* for any engine name but "whisper".  The import may raise before anything
\* is built.
load_asr ==
    IF handle["asr"] # 0
    THEN {[h |-> handle["asr"], built |-> 0, model |-> asr_model, exc |-> NoExc]}
    ELSE IF asr_engine = "whisper"
    THEN {[h |-> 0, built |-> 0, model |-> FALSE, exc |-> m] : m \in ImportErrMsgs}
             \cup {[h |-> constructed["asr"] + 1, built |-> 1,
                    model |-> l.model, exc |-> l.exc] : l \in whisper_load_model}
    ELSE {[h |-> 0, built |-> 0, model |-> FALSE,
           exc |-> "Unknown ASR engine: " \o asr_engine]}

\* _load_translator: builds an IndicTranslator, stores it, then pre-loads
\* both directions.
load_translator ==
    IF handle["translator"] # 0
    THEN {[h |-> handle["translator"], built |-> 0,
           models |-> translator_models, exc |-> NoExc]}
    ELSE {[h |-> 0, built |-> 0, models |-> {}, exc |-> m] : m \in ImportErrMsgs}
             \cup {[h |-> constructed["translator"] + 1, built |-> 1,
                    models |-> l.models, exc |-> l.exc]
                       : l \in load_models({}, <<"indic-en", "en-indic">>)}

\* A _load_llm without the "is not None" test: every call builds anew.
load_llm_unguarded ==
    {[h |-> handle["llm"], built |-> 0, model |-> llm_model, exc |-> m]
        : m \in ImportErrMsgs}
        \cup {[h |-> constructed["llm"] + 1, built |-> 1,
               model |-> l.model, exc |-> l.exc] : l \in qwen_load_model}

\* _load_llm: builds a QwenLLM, stores it, sets the system prompt, then
\* loads the model.
load_llm ==
    IF handle["llm"] # 0
    THEN {[h |-> handle["llm"], built |-> 0, model |-> llm_model, exc |-> NoExc]}
    ELSE {[h |-> 0, built |-> 0, model |-> FALSE, exc |-> m] : m \in ImportErrMsgs}
             \cup {[h |-> constructed["llm"] + 1, built |-> 1,
                    model |-> l.model, exc |-> l.exc] : l \in qwen_load_model}

\* _load_tts: builds a TTSEngine (its backends load on first synthesis).
load_tts ==
    IF handle["tts"] # 0
    THEN {[h |-> handle["tts"], built |-> 0, exc |-> NoExc]}
    ELSE {[h |-> 0, built |-> 0, exc |-> m] : m \in ImportErrMsgs}
             \cup {[h |-> constructed["tts"] + 1, built |-> 1, exc |-> NoExc]}

\* _load_intent_detector: IntentDetector(use_llm=False); the module is the
\* pipeline's own package and the constructor only stores two fields.
load_intent_detector ==
    IF handle["intent_detector"] # 0
    THEN {[h |-> handle["intent_detector"], built |-> 0, exc |-> NoExc]}
    ELSE {[h |-> constructed["intent_detector"] + 1, built |-> 1, exc |-> NoExc]}

\* The fields of the QwenLLM after _load_llm's outcome o and a chat that
\* remembered the messages said (none when no chat was made or it raised):
\* a QwenLLM just built has the default limit, an empty history and the
\* prompt set by _load_llm.
LlmBuilt(o, said) ==
    LET limit == IF o.built = 1 THEN DefaultMemory ELSE max_memory_messages
        h == IF o.built = 1 THEN <<>> ELSE conversation_history
        r == IF o.built = 1 THEN <<>> ELSE remembered
    IN /\ system_prompt' = IF o.built = 1 THEN VoicePrompt ELSE system_prompt
       /\ max_memory_messages' = limit
       /\ conversation_history' =
              IF said = <<>> THEN h
              ELSE remember(h, limit, said[1].content, said[2].content)
       /\ remembered' = r \o said

\* The handle and the build counter after a loader's outcome o.
Loaded(e, o) ==
    /\ handle' = [handle EXCEPT ![e] = o.h]
    /\ constructed' = [constructed EXCEPT ![e] = @ + o.built]

\* One entry of the trace: a call, its arguments and what it returned
\* (None when it raised or returns nothing).
Ev(call, arg, arg2, out) ==
    [call |-> call, arg |-> arg, arg2 |-> arg2, out |-> out]

\* The trace entries of a stage: the instance built for handle e, then the
\* engine call made on it.
Events(e, o, call, arg, out) ==
    (IF o.built = 1 THEN <<Ev("new", e, None, None)>> ELSE <<>>)
        \o (IF o.called THEN <<Ev(call, arg, None, out)>> ELSE <<>>)

(***************************************************************************)
(* VoiceAssistantPipeline.process                                          *)
(***************************************************************************)

\* An except clause that answers with a fresh failure record in place of
\* the one the stages filled.
ExceptFreshRecord(stage, msg) ==
    /\ result' = [PipelineResult(args.audio_path) EXCEPT
                      !.success = FALSE, !.error = msg]
    /\ raised' = [at |-> stage, msg |-> msg]
    /\ pc' = "finish"
    /\ UNCHANGED outcome

\* An except clause that records the message and leaves success as it was.
ExceptKeepsSuccess(stage, msg) ==
    /\ result' = [result EXCEPT !.error = msg]
    /\ raised' = [at |-> stage, msg |-> msg]
    /\ pc' = "finish"
    /\ UNCHANGED outcome

\* A process whose except clause re-raised: the exception reaches the
\* caller and no record is returned.
ExceptPropagates(stage, msg) ==
    /\ raised' = [at |-> stage, msg |-> msg]
    /\ pc' = "returned"
    /\ outcome' = "raised"
    /\ UNCHANGED result

\* The except clause of process: the exception is logged, success is
\* cleared and str(e) stored; control goes on to the total-time line.
Except(stage, msg) ==
    /\ result' = [result EXCEPT !.success = FALSE, !.error = msg]
    /\ raised' = [at |-> stage, msg |-> msg]
    /\ pc' = "finish"
    /\ UNCHANGED outcome

\* Entry of process: a fresh PipelineResult, total_start taken.
Enter(name, audio_path, text_input, input_language) ==
    /\ pc = "idle"
    /\ Len(conversation_history) < 2 * MaxTurns
    /\ pc' = "stage1"
    /\ op' = name
    /\ args' = [audio_path |-> audio_path, text_input |-> text_input,
                input_language |-> input_language]
    /\ result' = PipelineResult(audio_path)
    /\ now' = 0
    /\ trace' = <<>>
    /\ raised' = NoRaise
    /\ outcome' = "running"
    /\ entry' = handle
    /\ UNCHANGED <<engine_vars, config_vars, standalone_vars>>

\* process(audio_path, text_input, input_language)
process ==
    \E a \in AudioPaths, t \in TextInputs, l \in Languages :
        Enter("process", a, t, l)

\* A process_text that hands an audio path on to process as well.
process_text_with_audio ==
    \E a \in AudioPaths, t \in TextInputs \ {None}, l \in Languages :
        Enter("process_text", a, t, l)

\* process_text(text, input_language): process(text_input=text, ...), the
\* audio path left at its default None.
process_text ==
    \E t \in TextInputs \ {None}, l \in Languages :
        Enter("process_text", None, t, l)

\* A stage 1 that calls transcribe without _load_asr() first: on a handle
\* that is still None the attribute lookup raises.
asr_stage_without_load ==
    IF handle["asr"] = 0
    THEN {[h |-> 0, built |-> 0, called |-> FALSE, model |-> FALSE,
           exc |-> "'NoneType' object has no attribute 'transcribe'",
           text |-> None]}
    ELSE {[h |-> handle["asr"], built |-> 0, called |-> TRUE,
           model |-> t.model, exc |-> t.exc, text |-> t.text]
             : t \in transcribe(asr_model)}

\* Stage 1 with an audio path: _load_asr(), then self._asr.transcribe.
asr_stage ==
    UNION {
        IF l.exc # NoExc
        THEN {[h |-> l.h, built |-> l.built, called |-> FALSE,
               model |-> l.model, exc |-> l.exc, text |-> None]}
        ELSE {[h |-> l.h, built |-> l.built, called |-> TRUE,
               model |-> t.model, exc |-> t.exc, text |-> t.text]
                 : t \in transcribe(l.model)}
        : l \in load_asr}

\* Stage 1: ASR when an audio path is given, else the text input as it is,
\* else ValueError.
Stage1 ==
    /\ pc = "stage1"
    /\ IF Truthy(args.audio_path)
       THEN \E o \in asr_stage, d \in {0, MaxTick} :
               /\ Loaded("asr", o)
               /\ asr_model' = o.model
               /\ now' = now + d
               /\ trace' = trace \o Events("asr", o, "transcribe", args.audio_path, o.text)
               /\ IF o.exc = NoExc
                  THEN /\ result' = [result EXCEPT
                                        !.malayalam_text = o.text,
                                        !.asr_time_ms = (now' - now) * 1000]
                       /\ pc' = "stage2"
                       /\ UNCHANGED <<raised, outcome>>
                  ELSE Except("stage1", o.exc)
               /\ UNCHANGED <<translator_models, llm_model, llm_fields>>
       ELSE /\ IF Truthy(args.text_input)
               THEN /\ result' = [result EXCEPT
                                     !.malayalam_text = args.text_input,
                                     !.asr_time_ms = 0]
                    /\ pc' = "stage2"
                    /\ UNCHANGED <<raised, outcome>>
               ELSE Except("stage1",
                           "Either audio_path or text_input must be provided")
            /\ UNCHANGED <<engine_vars, now, trace>>
    /\ UNCHANGED <<config_vars, standalone_vars, op, args, entry>>

\* _load_translator(), then a translation of text from source_lang.
translate_stage(text, source_lang) ==
    UNION {
        IF l.exc # NoExc
        THEN {[h |-> l.h, built |-> l.built, called |-> FALSE,
               models |-> l.models, exc |-> l.exc, text |-> None]}
        ELSE {[h |-> l.h, built |-> l.built, called |-> TRUE,
               models |-> t.models, exc |-> t.exc, text |-> t.text]
                 : t \in translate(l.models, text, source_lang)}
        : l \in load_translator}

\* A stage 2 that translates whatever the input language is.
translates_input_always == TRUE

\* The test of stage 2: if input_language == "ml".
translates_input == args.input_language = "ml"

\* Stage 2: Malayalam input is translated to English, any other input
\* language passes through with zero time.
Stage2 ==
    /\ pc = "stage2"
    /\ IF translates_input
       THEN \E o \in translate_stage(result.malayalam_text, "ml"),
               d \in {0, MaxTick} :
               /\ Loaded("translator", o)
               /\ translator_models' = o.models
               /\ now' = now + d
               /\ trace' = trace \o Events("translator", o, "ml_to_en",
                                           result.malayalam_text, o.text)
               /\ IF o.exc = NoExc
                  THEN /\ result' = [result EXCEPT
                                        !.english_text = o.text,
                                        !.translation_ml_en_time_ms =
                                            (now' - now) * 1000]
                       /\ pc' = "stage3"
                       /\ UNCHANGED <<raised, outcome>>
                  ELSE Except("stage2", o.exc)
               /\ UNCHANGED <<asr_model, llm_model, llm_fields>>
       ELSE /\ result' = [result EXCEPT
                             !.english_text = result.malayalam_text,
                             !.translation_ml_en_time_ms = 0]
            /\ pc' = "stage3"
            /\ UNCHANGED <<engine_vars, now, trace, raised, outcome>>
    /\ UNCHANGED <<config_vars, standalone_vars, op, args, entry>>

\* Whether stage 3 runs: "if self.detect_intent and self._intent_detector".
\* Inside that branch the handle is never None, so the construction written
\* there ("if self._intent_detector is None: ...") is never executed.
intent_stage_runs == detect_intent /\ handle["intent_detector"] # 0

\* Stage 3: intent detection, inside the same try as every other stage.
Stage3 ==
    /\ pc = "stage3"
    /\ IF intent_stage_runs
       THEN /\ trace' = trace \o <<Ev("detect", result.malayalam_text,
                                       result.english_text, None)>>
            /\ IF detect_raises(result.malayalam_text, result.english_text)
               THEN Except("stage3", "'int' object has no attribute 'lower'")
               ELSE LET intent == detect(result.malayalam_text,
                                         result.english_text)
                    IN /\ result' = [result EXCEPT
                                        !.intent_type = intent.type,
                                        !.intent_description = intent.description,
                                        !.intent_confidence = intent.confidence,
                                        !.intent_entities = intent.entities]
                       /\ pc' = "stage4"
                       /\ UNCHANGED <<raised, outcome>>
       ELSE /\ pc' = "stage4"
            /\ UNCHANGED <<result, trace, raised, outcome>>
    /\ UNCHANGED <<engine_vars, config_vars, standalone_vars, op, args, now, entry>>

\* _load_llm(), then self._llm.chat(english_text).
llm_stage(text) ==
    UNION {
        IF l.exc # NoExc
        THEN {[h |-> l.h, built |-> l.built, called |-> FALSE,
               model |-> l.model, exc |-> l.exc, content |-> None]}
        ELSE {[h |-> l.h, built |-> l.built, called |-> TRUE,
               model |-> c.model, exc |-> c.exc, content |-> c.content]
                 : c \in chat(l.model, text)}
        : l \in load_llm}

\* Stage 4: the LLM answers the English text.
Stage4 ==
    /\ pc = "stage4"
    /\ \E o \in llm_stage(result.english_text), d \in {0, MaxTick} :
          /\ Loaded("llm", o)
          /\ llm_model' = o.model
          /\ LlmBuilt(o, IF o.called /\ o.exc = NoExc
                         THEN <<Message("user", result.english_text),
                                Message("assistant", o.content)>>
                         ELSE <<>>)
          /\ now' = now + d
          /\ trace' = trace \o Events("llm", o, "chat", result.english_text,
                                     o.content)
          /\ IF o.exc = NoExc
             THEN /\ result' = [result EXCEPT
                                   !.english_response = o.content,
                                   !.llm_time_ms = (now' - now) * 1000]
                  /\ pc' = "stage5"
                  /\ UNCHANGED <<raised, outcome>>
             ELSE Except("stage4", o.exc)
    /\ UNCHANGED <<asr_model, translator_models, config_vars, standalone_vars, op, args, entry>>

\* Stage 5: the reply is translated to Malayalam, whatever the input
\* language was.
Stage5 ==
    /\ pc = "stage5"
    /\ \E o \in translate_stage(result.english_response, "en"),
          d \in {0, MaxTick} :
          /\ Loaded("translator", o)
          /\ translator_models' = o.models
          /\ now' = now + d
          /\ trace' = trace \o Events("translator", o, "en_to_ml",
                                     result.english_response, o.text)
          /\ IF o.exc = NoExc
             THEN /\ result' = [result EXCEPT
                                   !.malayalam_response = o.text,
                                   !.translation_en_ml_time_ms =
                                       (now' - now) * 1000]
                  /\ pc' = "stage6"
                  /\ UNCHANGED <<raised, outcome>>
             ELSE Except("stage5", o.exc)
    /\ UNCHANGED <<asr_model, llm_model, llm_fields, config_vars, standalone_vars, op, args,
                 entry>>

\* _load_tts(), then self._tts.synthesize(malayalam_response, "ml", path).
tts_stage(text) ==
    UNION {
        IF l.exc # NoExc
        THEN {[h |-> l.h, built |-> l.built, called |-> FALSE,
               exc |-> l.exc, audio |-> None]}
        ELSE {[h |-> l.h, built |-> l.built, called |-> TRUE,
               exc |-> y.exc, audio |-> y.audio] : y \in synthesize(text)}
        : l \in load_tts}

\* Stage 6: synthesis; then result.success = True, the last line of the try.
Stage6 ==
    /\ pc = "stage6"
    /\ \E o \in tts_stage(result.malayalam_response), d \in {0, MaxTick} :
          /\ Loaded("tts", o)
          /\ now' = now + d
          /\ trace' = trace \o Events("tts", o, "synthesize",
                                     result.malayalam_response, o.audio)
          /\ IF o.exc = NoExc
             THEN /\ result' = [result EXCEPT
                                   !.audio_output = o.audio,
                                   !.tts_time_ms = (now' - now) * 1000,
                                   !.success = TRUE]
                  /\ pc' = "finish"
                  /\ UNCHANGED <<raised, outcome>>
             ELSE Except("stage6", o.exc)
    /\ UNCHANGED <<asr_model, translator_models, llm_model, llm_fields,
                 config_vars, standalone_vars, op,
                   args, entry>>

\* A process that writes total_time_ms at the end of the try block only, so
\* that a failed call returns without it.
FinishWithoutTotalOnFailure ==
    /\ pc = "finish"
    /\ \E d \in {0, MaxTick} :
          /\ now' = now + d
          /\ result' = IF raised = NoRaise
                       THEN [result EXCEPT !.total_time_ms = now' * 1000]
                       ELSE result
    /\ pc' = "returned"
    /\ outcome' = "returned"
    /\ UNCHANGED <<engine_vars, config_vars, standalone_vars, op, args, trace, raised, entry>>

\* After the try: total_time_ms from total_start (the origin of now), and
\* the record is returned.
Finish ==
    /\ pc = "finish"
    /\ \E d \in {0, MaxTick} :
          /\ now' = now + d
          /\ result' = [result EXCEPT !.total_time_ms = now' * 1000]
    /\ pc' = "returned"
    /\ outcome' = "returned"
    /\ UNCHANGED <<engine_vars, config_vars, standalone_vars, op, args, trace, raised, entry>>

(***************************************************************************)
(* VoiceAssistantPipeline.load_components                                  *)
(***************************************************************************)

\* Entry of load_components.
load_components ==
    /\ pc = "idle"
    /\ pc' = "load_asr"
    /\ op' = "load_components"
    /\ trace' = <<>>
    /\ raised' = NoRaise
    /\ outcome' = "running"
    /\ entry' = handle
    /\ UNCHANGED <<engine_vars, config_vars, standalone_vars, args, result, now>>

\* A load_components that logs a loader's exception and carries on with
\* the next loader.
LoadStepSwallows(e, o, next) ==
    /\ Loaded(e, o)
    /\ trace' = trace \o <<Ev("_load", e, None, None)>>
                      \o (IF o.built = 1 THEN <<Ev("new", e, None, None)>>
                          ELSE <<>>)
    /\ pc' = next
    /\ outcome' = IF next = "returned" THEN "returned" ELSE outcome
    /\ raised' = IF o.exc = NoExc THEN raised
                 ELSE [at |-> "_load_" \o e, msg |-> o.exc]
    /\ UNCHANGED <<config_vars, standalone_vars, op, args, result, now, entry>>

\* One loader of load_components has run with outcome o: an exception goes
\* to the caller of load_components, otherwise the next loader follows.
LoadStep(e, o, next) ==
    /\ Loaded(e, o)
    /\ trace' = trace \o <<Ev("_load", e, None, None)>>
                      \o (IF o.built = 1 THEN <<Ev("new", e, None, None)>>
                          ELSE <<>>)
    /\ IF o.exc = NoExc
       THEN /\ pc' = next
            /\ outcome' = IF next = "returned" THEN "returned" ELSE outcome
            /\ UNCHANGED raised
       ELSE /\ pc' = "returned"
            /\ outcome' = "raised"
            /\ raised' = [at |-> "_load_" \o e, msg |-> o.exc]
    /\ UNCHANGED <<config_vars, standalone_vars, op, args, result, now, entry>>

\* [1/5] self._load_asr()
LoadAsr ==
    /\ pc = "load_asr"
    /\ \E o \in load_asr :
          /\ LoadStep("asr", o, "load_translator")
          /\ asr_model' = o.model
    /\ UNCHANGED <<translator_models, llm_model, llm_fields>>

\* [2/5] self._load_translator()
LoadTranslator ==
    /\ pc = "load_translator"
    /\ \E o \in load_translator :
          /\ LoadStep("translator", o, "load_llm")
          /\ translator_models' = o.models
    /\ UNCHANGED <<asr_model, llm_model, llm_fields>>

\* [3/5] self._load_llm()
LoadLlm ==
    /\ pc = "load_llm"
    /\ \E o \in load_llm :
          /\ LoadStep("llm", o, "load_tts")
          /\ llm_model' = o.model
          /\ LlmBuilt(o, <<>>)
    /\ UNCHANGED <<asr_model, translator_models>>

\* [4/5] self._load_tts(); the intent detector follows only when
\* self.detect_intent is set.
LoadTts ==
    /\ pc = "load_tts"
    /\ \E o \in load_tts :
          LoadStep("tts", o,
                   IF detect_intent THEN "load_intent_detector" ELSE "returned")
    /\ UNCHANGED <<asr_model, translator_models, llm_model, llm_fields>>

\* [5/5] self._load_intent_detector()
LoadIntentDetector ==
    /\ pc = "load_intent_detector"
    /\ \E o \in load_intent_detector :
          LoadStep("intent_detector", o, "returned")
    /\ UNCHANGED <<asr_model, translator_models, llm_model, llm_fields>>

(***************************************************************************)
(* VoiceAssistantPipeline.clear_conversation                               *)
(***************************************************************************)

\* A clear_conversation that replaces the QwenLLM by a fresh one.
clear_conversation_rebuilds ==
    /\ pc = "idle"
    /\ pc' = "returned"
    /\ op' = "clear_conversation"
    /\ trace' = <<Ev("new", "llm", None, None)>>
    /\ handle' = [handle EXCEPT !["llm"] = constructed["llm"] + 1]
    /\ constructed' = [constructed EXCEPT !["llm"] = @ + 1]
    /\ llm_model' = FALSE
    /\ system_prompt' = DEFAULT_SYSTEM_PROMPT
    /\ conversation_history' = <<>>
    /\ remembered' = <<>>
    /\ outcome' = "returned"
    /\ UNCHANGED <<asr_model, translator_models, max_memory_messages,
                   config_vars, standalone_vars, args, result, now, raised, entry>>

\* clear_conversation: "if self._llm: self._llm.clear_history()".  It builds
\* nothing and touches no handle.
clear_conversation ==
    /\ pc = "idle"
    /\ pc' = "returned"
    /\ op' = "clear_conversation"
    /\ IF handle["llm"] # 0
       THEN /\ trace' = <<Ev("clear_history", conversation_history, None, None)>>
            /\ conversation_history' = clear_history
            /\ remembered' = <<>>
       ELSE /\ trace' = <<>>
            /\ UNCHANGED <<conversation_history, remembered>>
    /\ outcome' = "returned"
    /\ UNCHANGED <<handle, asr_model, translator_models, llm_model,
                   system_prompt, max_memory_messages, constructed,
                   config_vars, standalone_vars, args, result, now, raised, entry>>

(***************************************************************************)
(* The caller                                                              *)
(***************************************************************************)

\* The caller has the outcome of its call (the record of process, the
\* exception of load_components) and goes on to its next call.
Continue ==
    /\ pc = "returned"
    /\ pc' = "idle"
    /\ op' = "none"
    /\ args' = NoArgs
    /\ result' = PipelineResult(None)
    /\ now' = 0
    /\ trace' = <<>>
    /\ raised' = NoRaise
    /\ outcome' = "none"
    /\ entry' = handle
    /\ UNCHANGED <<engine_vars, config_vars, standalone_vars>>

(***************************************************************************)
(* A QwenLLM used on its own: chat and clear_history                       *)
(***************************************************************************)

\* What a QwenLLM on its own leaves alone: the pipeline.
pipeline_vars == <<asr_engine, detect_intent, handle, asr_model,
                   translator_models, constructed, pc, op, args, result, now,
                   trace, raised, outcome, entry, detector_vars, agent_vars,
                   nlu_vars, race_vars>>

\* QwenLLM(max_memory_messages=n): default prompt, no model, no history.
InitQwen ==
    /\ asr_engine = "whisper"
    /\ detect_intent = FALSE
    /\ handle = [e \in Engines |-> 0]
    /\ asr_model = FALSE
    /\ translator_models = {}
    /\ llm_model = FALSE
    /\ system_prompt = DEFAULT_SYSTEM_PROMPT
    /\ max_memory_messages \in 0..MaxMemory
    /\ conversation_history = <<>>
    /\ remembered = <<>>
    /\ use_llm = FALSE
    /\ detector_llm = 0
    /\ detector_llm_model = FALSE
    /\ detection = NoDetection
    /\ graph = FALSE
    /\ agent_pc = "idle"
    /\ agent_state = initial_state("", "en")
    /\ agent_ran = <<>>
    /\ agent_result = NoResult
    /\ chat_call = NoChat
    /\ threads = [t \in Threads |-> NoThread]
    /\ model_type = "keyword"
    /\ classified = NoClassified
    /\ pc = "qwen"
    /\ op = "none"
    /\ args = NoArgs
    /\ result = PipelineResult(None)
    /\ now = 0
    /\ constructed = [e \in Engines |-> 0]
    /\ trace = <<>>
    /\ raised = NoRaise
    /\ outcome = "none"
    /\ entry = [e \in Engines |-> 0]

\* llm.chat(user_input, remember=flag): the history changes only when the
\* generation returned and remember is set.
QwenChat ==
    /\ pc = "qwen"
    /\ Len(remembered) < 2 * MaxChats
    /\ \E u \in UserInputs, flag \in BOOLEAN : \E o \in chat(llm_model, u) :
          /\ llm_model' = o.model
          /\ conversation_history' =
                 chat_history(conversation_history, max_memory_messages, u,
                              flag, o)
          /\ remembered' =
                 IF o.exc = NoExc /\ flag
                 THEN remembered \o <<Message("user", u),
                                      Message("assistant", o.content)>>
                 ELSE remembered
          /\ chat_call' =
                 [user_input |-> u, remember |-> flag,
                  messages |-> IF llm_model \/ o.model
                               THEN build_messages(system_prompt,
                                        conversation_history,
                                        max_memory_messages, u)
                               ELSE <<>>,
                  exc |-> o.exc, content |-> o.content]
    /\ UNCHANGED <<system_prompt, max_memory_messages, pipeline_vars>>

\* llm.clear_history()
QwenClearHistory ==
    /\ pc = "qwen"
    /\ conversation_history' = clear_history
    /\ remembered' = <<>>
    /\ chat_call' = NoChat
    /\ UNCHANGED <<llm_model, system_prompt, max_memory_messages,
                   pipeline_vars>>

NextQwen ==
    \/ QwenChat
    \/ QwenClearHistory

SpecQwen == InitQwen /\ [][NextQwen]_vars

(***************************************************************************)
(* An IntentDetector used on its own: detect                               *)
(***************************************************************************)

\* IntentDetector._get_llm: the QwenLLM is built on first use; the import
\* of its module may fail.
get_llm ==
    IF detector_llm # 0 \/ ~use_llm
    THEN {[h |-> detector_llm, exc |-> NoExc]}
    ELSE {[h |-> 0, exc |-> m] : m \in ImportErrMsgs}
             \cup {[h |-> 1, exc |-> NoExc]}

\* IntentDetector._llm_detect(original_text, english_text): every way it
\* can end, with the handle and the model it leaves.
llm_detect(original_text, english_text) ==
    UNION {
        IF g.exc # NoExc
        THEN {[h |-> g.h, model |-> detector_llm_model, chat_called |-> FALSE,
               response |-> <<>>, chat_exc |-> NoExc, escaped |-> g.exc,
               intent |-> LlmDetectDefault, returned |-> FALSE]}
        ELSE IF g.h = 0
        THEN {[h |-> 0, model |-> detector_llm_model, chat_called |-> FALSE,
               response |-> <<>>, chat_exc |-> NoExc, escaped |-> NoExc,
               intent |-> LlmDetectDefault, returned |-> TRUE]}
        ELSE UNION {
            IF c.exc # NoExc
            THEN {[h |-> g.h, model |-> c.model, chat_called |-> TRUE,
                   response |-> <<>>, chat_exc |-> c.exc, escaped |-> NoExc,
                   intent |-> LlmDetectDefault, returned |-> TRUE]}
            ELSE {[h |-> g.h, model |-> c.model, chat_called |-> TRUE,
                   response |-> r, chat_exc |-> NoExc, escaped |-> NoExc,
                   intent |-> parse_llm_response(r), returned |-> TRUE]
                     : r \in LlmOutputs}
            : c \in chat(detector_llm_model, english_text)}
        : g \in get_llm}

\* IntentDetector.detect(text, english_text): keywords first, then the LLM
\* when use_llm is set, else the general default.
detect_call(text, english_text) ==
    LET analysis_text == Lower(analysis_source(text, english_text))
        detected_intent == keyword_detect(analysis_text)
        fields == [text |-> text, english_text |-> english_text,
                   keyword |-> detected_intent]
        plain == [h |-> detector_llm, model |-> detector_llm_model,
                  chat_called |-> FALSE, response |-> <<>>, chat_exc |-> NoExc,
                  escaped |-> NoExc, returned |-> TRUE]
    IN IF detected_intent # None /\ detected_intent # "unknown"
       THEN {plain @@ fields @@ [intent |-> detect(text, english_text)]}
       ELSE IF use_llm
       THEN {o @@ fields
               : o \in llm_detect(text, analysis_source(english_text, text))}
       ELSE {plain @@ fields @@ [intent |-> detect(text, english_text)]}

\* IntentDetector(use_llm=flag)
InitIntent ==
    /\ asr_engine = "whisper"
    /\ detect_intent = FALSE
    /\ handle = [e \in Engines |-> 0]
    /\ asr_model = FALSE
    /\ translator_models = {}
    /\ llm_model = FALSE
    /\ system_prompt = None
    /\ max_memory_messages = DefaultMemory
    /\ conversation_history = <<>>
    /\ remembered = <<>>
    /\ use_llm \in BOOLEAN
    /\ detector_llm = 0
    /\ detector_llm_model = FALSE
    /\ detection = NoDetection
    /\ graph = FALSE
    /\ agent_pc = "idle"
    /\ agent_state = initial_state("", "en")
    /\ agent_ran = <<>>
    /\ agent_result = NoResult
    /\ chat_call = NoChat
    /\ threads = [t \in Threads |-> NoThread]
    /\ model_type = "keyword"
    /\ classified = NoClassified
    /\ pc = "detector"
    /\ op = "none"
    /\ args = NoArgs
    /\ result = PipelineResult(None)
    /\ now = 0
    /\ constructed = [e \in Engines |-> 0]
    /\ trace = <<>>
    /\ raised = NoRaise
    /\ outcome = "none"
    /\ entry = [e \in Engines |-> 0]

\* detector.detect(text, english_text)
DetectCall ==
    /\ pc = "detector"
    /\ \E text \in DetectTexts, english_text \in DetectEnglish :
          \E o \in detect_call(text, english_text) :
              /\ detector_llm' = o.h
              /\ detector_llm_model' = o.model
              /\ detection' = [f \in DOMAIN NoDetection |-> o[f]]
    /\ UNCHANGED <<use_llm, config_vars, engine_vars, call_vars, agent_vars,
                   nlu_vars, race_vars, qwen_call_vars>>

NextIntent == DetectCall

SpecIntent == InitIntent /\ [][NextIntent]_vars

(***************************************************************************)
(* An AgentOrchestrator: setup and process                                 *)
(***************************************************************************)

\* AgentOrchestrator(): graph None, no call made.
InitAgent ==
    /\ asr_engine = "whisper"
    /\ detect_intent = FALSE
    /\ handle = [e \in Engines |-> 0]
    /\ asr_model = FALSE
    /\ translator_models = {}
    /\ llm_model = FALSE
    /\ system_prompt = None
    /\ max_memory_messages = DefaultMemory
    /\ conversation_history = <<>>
    /\ remembered = <<>>
    /\ use_llm = FALSE
    /\ detector_llm = 0
    /\ detector_llm_model = FALSE
    /\ detection = NoDetection
    /\ graph = FALSE
    /\ agent_pc = "idle"
    /\ agent_state = initial_state("", "en")
    /\ agent_ran = <<>>
    /\ agent_result = NoResult
    /\ chat_call = NoChat
    /\ threads = [t \in Threads |-> NoThread]
    /\ model_type = "keyword"
    /\ classified = NoClassified
    /\ pc = "agent"
    /\ op = "none"
    /\ args = NoArgs
    /\ result = PipelineResult(None)
    /\ now = 0
    /\ constructed = [e \in Engines |-> 0]
    /\ trace = <<>>
    /\ raised = NoRaise
    /\ outcome = "none"
    /\ entry = [e \in Engines |-> 0]

\* What an agent step leaves alone.
agent_frame ==
    <<config_vars, engine_vars, call_vars, detector_vars, nlu_vars, race_vars,
      qwen_call_vars>>

\* Between two calls of the caller.
AgentIdle == agent_pc \in {"idle", "returned", "raised"}

\* setup(): the workflow is compiled when langgraph can be imported; on
\* ImportError _setup_simple_orchestrator leaves the graph None.
AgentSetup ==
    /\ pc = "agent"
    /\ AgentIdle
    /\ graph' \in BOOLEAN
    /\ UNCHANGED <<agent_pc, agent_state, agent_ran, agent_result, agent_frame>>

\* process(user_input, language): the initial state is built and handed to
\* the entry point, in the graph and in the fallback alike.
AgentProcess ==
    /\ pc = "agent"
    /\ AgentIdle
    /\ \E user_input \in AgentInputs, language \in Languages :
          agent_state' = initial_state(user_input, language)
    /\ agent_pc' = "intent_classifier"
    /\ agent_ran' = <<>>
    /\ agent_result' = NoResult
    /\ UNCHANGED <<graph, agent_frame>>

\* The node intent_classifier with a fallback that consults the path map too.
AgentClassifyAlwaysRoutes ==
    /\ agent_pc = "intent_classifier"
    /\ LET state == [agent_state EXCEPT
                        !.intent = classify_intent(agent_state.user_input)]
           r == route_to_agent(state)
       IN /\ agent_state' = state
          /\ agent_ran' = Append(agent_ran, "intent_classifier")
          /\ IF r \in DOMAIN ConditionalEdges
             THEN agent_pc' = ConditionalEdges[r] /\ UNCHANGED agent_result
             ELSE /\ agent_pc' = "raised"
                  /\ agent_result' = [NoResult EXCEPT !.exc = "KeyError: " \o r]
    /\ UNCHANGED <<graph, agent_frame>>

\* The node intent_classifier, then the step to the next node: with a graph
\* the conditional edge looks the router's answer up in its path map, which
\* raises KeyError out of graph.invoke when the answer is no key of it; the
\* fallback goes on to _run_chat_agent.
AgentClassify ==
    /\ agent_pc = "intent_classifier"
    /\ LET state == [agent_state EXCEPT
                        !.intent = classify_intent(agent_state.user_input)]
           r == route_to_agent(state)
       IN /\ agent_state' = state
          /\ agent_ran' = Append(agent_ran, "intent_classifier")
          /\ IF ~graph
             THEN agent_pc' = "chat_agent" /\ UNCHANGED agent_result
             ELSE IF r \in DOMAIN ConditionalEdges
             THEN agent_pc' = ConditionalEdges[r] /\ UNCHANGED agent_result
             ELSE /\ agent_pc' = "raised"
                  /\ agent_result' = [NoResult EXCEPT !.exc = "KeyError: " \o r]
    /\ UNCHANGED <<graph, agent_frame>>

\* A handler node, then the edge to response_generator.
AgentHandler(name) ==
    /\ agent_pc = name
    /\ agent_state' = run_agent(name, agent_state)
    /\ agent_ran' = Append(agent_ran, name)
    /\ agent_pc' = "response_generator"
    /\ UNCHANGED <<graph, agent_result, agent_frame>>

AgentInfo == AgentHandler("info_agent")
AgentTask == AgentHandler("task_agent")
AgentChat == AgentHandler("chat_agent")

\* The node response_generator, the end of the workflow.
AgentGenerate ==
    /\ agent_pc = "response_generator"
    /\ agent_state' = generate_response(agent_state)
    /\ agent_ran' = Append(agent_ran, "response_generator")
    /\ agent_pc' = "return"
    /\ UNCHANGED <<graph, agent_result, agent_frame>>

\* process returns response, intent and language of the final state.
AgentReturn ==
    /\ agent_pc = "return"
    /\ agent_result' = [response |-> agent_state.final_response,
                        intent |-> agent_state.intent,
                        language |-> agent_state.language, exc |-> NoExc]
    /\ agent_pc' = "returned"
    /\ UNCHANGED <<graph, agent_state, agent_ran, agent_frame>>

\* The agent_outputs _generate_response is applied to on its own: up to one
\* output per handler, in any insertion order, with or without a response.
GenerateOutputs ==
    LET Texts == {None, "", HandlerResponse("info_agent", "hi"),
                  HandlerResponse("chat_agent", "hi")}
    IN UNION {{[i \in 1..n |-> [agent |-> names[i], response |-> rs[i]]] :
                  names \in {f \in [1..n -> {"info_agent", "task_agent", "chat_agent"}] :
                               \A i, j \in 1..n : f[i] = f[j] => i = j},
                  rs \in [1..n -> Texts]} : n \in 0..3}

\* A state about to enter _generate_response.
InitGenerate ==
    /\ asr_engine = "whisper"
    /\ detect_intent = FALSE
    /\ handle = [e \in Engines |-> 0]
    /\ asr_model = FALSE
    /\ translator_models = {}
    /\ llm_model = FALSE
    /\ system_prompt = None
    /\ max_memory_messages = DefaultMemory
    /\ conversation_history = <<>>
    /\ remembered = <<>>
    /\ use_llm = FALSE
    /\ detector_llm = 0
    /\ detector_llm_model = FALSE
    /\ detection = NoDetection
    /\ graph = FALSE
    /\ agent_pc = "response_generator"
    /\ \E outputs \in GenerateOutputs :
          agent_state = [initial_state("hi", "en") EXCEPT
                            !.intent = "general_chat", !.agent_outputs = outputs]
    /\ agent_ran = <<>>
    /\ agent_result = NoResult
    /\ chat_call = NoChat
    /\ threads = [t \in Threads |-> NoThread]
    /\ model_type = "keyword"
    /\ classified = NoClassified
    /\ pc = "generate"
    /\ op = "none"
    /\ args = NoArgs
    /\ result = PipelineResult(None)
    /\ now = 0
    /\ constructed = [e \in Engines |-> 0]
    /\ trace = <<>>
    /\ raised = NoRaise
    /\ outcome = "none"
    /\ entry = [e \in Engines |-> 0]

SpecGenerate == InitGenerate /\ [][AgentGenerate]_vars

NextAgent ==
    \/ AgentSetup
    \/ AgentProcess
    \/ AgentClassify
    \/ AgentInfo
    \/ AgentTask
    \/ AgentChat
    \/ AgentGenerate
    \/ AgentReturn

SpecAgent == InitAgent /\ [][NextAgent]_vars

(***************************************************************************)
(* An IntentClassifier on its own                                          *)
(***************************************************************************)

\* IntentClassifier(): the keyword classifier, nothing classified.
InitNlu ==
    /\ asr_engine = "whisper"
    /\ detect_intent = FALSE
    /\ handle = [e \in Engines |-> 0]
    /\ asr_model = FALSE
    /\ translator_models = {}
    /\ llm_model = FALSE
    /\ system_prompt = None
    /\ max_memory_messages = DefaultMemory
    /\ conversation_history = <<>>
    /\ remembered = <<>>
    /\ use_llm = FALSE
    /\ detector_llm = 0
    /\ detector_llm_model = FALSE
    /\ detection = NoDetection
    /\ graph = FALSE
    /\ agent_pc = "idle"
    /\ agent_state = initial_state("", "en")
    /\ agent_ran = <<>>
    /\ agent_result = NoResult
    /\ chat_call = NoChat
    /\ threads = [t \in Threads |-> NoThread]
    /\ model_type = "keyword"
    /\ classified = NoClassified
    /\ pc = "nlu"
    /\ op = "none"
    /\ args = NoArgs
    /\ result = PipelineResult(None)
    /\ now = 0
    /\ constructed = [e \in Engines |-> 0]
    /\ trace = <<>>
    /\ raised = NoRaise
    /\ outcome = "none"
    /\ entry = [e \in Engines |-> 0]

\* IntentClassifier(model_type)
NluConstruct ==
    /\ pc = "nlu"
    /\ model_type' \in {"keyword", "ml", "llm"}
    /\ classified' = NoClassified
    /\ UNCHANGED <<config_vars, engine_vars, call_vars, detector_vars, agent_vars,
                   race_vars, qwen_call_vars>>

\* classify(text, language)
NluClassify ==
    /\ pc = "nlu"
    /\ \E text \in NluTexts, language \in Languages :
          classified' = classify(model_type, text, language) @@ [text |-> text]
    /\ UNCHANGED <<model_type, config_vars, engine_vars, call_vars,
                   detector_vars, agent_vars, race_vars, qwen_call_vars>>

SpecNlu == InitNlu /\ [][NluConstruct \/ NluClassify]_vars

(***************************************************************************)
(* Two process calls at once on one pipeline                               *)
(***************************************************************************)

\* VoiceAssistantPipeline(): no engine built, no caller in process.
InitRace ==
    /\ asr_engine = "whisper"
    /\ detect_intent = FALSE
    /\ handle = [e \in Engines |-> 0]
    /\ asr_model = FALSE
    /\ translator_models = {}
    /\ llm_model = FALSE
    /\ system_prompt = None
    /\ max_memory_messages = DefaultMemory
    /\ conversation_history = <<>>
    /\ remembered = <<>>
    /\ use_llm = FALSE
    /\ detector_llm = 0
    /\ detector_llm_model = FALSE
    /\ detection = NoDetection
    /\ graph = FALSE
    /\ agent_pc = "idle"
    /\ agent_state = initial_state("", "en")
    /\ agent_ran = <<>>
    /\ agent_result = NoResult
    /\ chat_call = NoChat
    /\ model_type = "keyword"
    /\ classified = NoClassified
    /\ threads = [t \in Threads |-> NoThread]
    /\ pc = "race"
    /\ op = "none"
    /\ args = NoArgs
    /\ result = PipelineResult(None)
    /\ now = 0
    /\ constructed = [e \in Engines |-> 0]
    /\ trace = <<>>
    /\ raised = NoRaise
    /\ outcome = "none"
    /\ entry = [e \in Engines |-> 0]

\* What a step of a caller leaves alone besides handle and constructed.
race_frame ==
    <<asr_model, translator_models, llm_model, llm_fields, config_vars,
      call_vars, detector_vars, agent_vars, nlu_vars, qwen_call_vars>>

\* The engine of the stage caller t is in.
EngineOf(t) == StageEngines[threads[t].stage]

\* Caller t enters process and reaches the first _load_* helper.
ThreadProcess(t) ==
    /\ pc = "race"
    /\ threads[t].at = "idle"
    /\ threads' = [threads EXCEPT ![t].at = "check"]
    /\ UNCHANGED <<handle, constructed, race_frame>>

\* "if self._x is not None: return": the helper reads the handle.
ThreadCheck(t) ==
    /\ pc = "race"
    /\ threads[t].at = "check"
    /\ threads' = [threads EXCEPT
                      ![t].at = IF handle[EngineOf(t)] # 0 THEN "use" ELSE "build"]
    /\ UNCHANGED <<handle, constructed, race_frame>>

\* The right-hand side of "self._x = Engine(...)": a new instance.
ThreadBuild(t) ==
    /\ pc = "race"
    /\ threads[t].at = "build"
    /\ constructed' = [constructed EXCEPT ![EngineOf(t)] = @ + 1]
    /\ threads' = [threads EXCEPT ![t].at = "assign",
                                  ![t].built = constructed[EngineOf(t)] + 1]
    /\ UNCHANGED <<handle, race_frame>>

\* The assignment of "self._x = Engine(...)".
ThreadAssign(t) ==
    /\ pc = "race"
    /\ threads[t].at = "assign"
    /\ handle' = [handle EXCEPT ![EngineOf(t)] = threads[t].built]
    /\ threads' = [threads EXCEPT ![t].at = "use", ![t].built = 0]
    /\ UNCHANGED <<constructed, race_frame>>

\* The stage's call on self._x, which reads the handle again; then the next
\* stage's helper, or the end of process.
ThreadUse(t) ==
    /\ pc = "race"
    /\ threads[t].at = "use"
    /\ threads' = [threads EXCEPT
                      ![t].used[EngineOf(t)] = handle[EngineOf(t)],
                      ![t].at = IF threads[t].stage = Len(StageEngines)
                                THEN "done" ELSE "check",
                      ![t].stage = IF threads[t].stage = Len(StageEngines)
                                   THEN @ ELSE @ + 1]
    /\ UNCHANGED <<handle, constructed, race_frame>>

NextRace ==
    \E t \in Threads :
        \/ ThreadProcess(t)
        \/ ThreadCheck(t)
        \/ ThreadBuild(t)
        \/ ThreadAssign(t)
        \/ ThreadUse(t)

SpecRace == InitRace /\ [][NextRace]_vars

(***************************************************************************)
(* The specification                                                       *)
(***************************************************************************)

Next ==
    \/ process
    \/ process_text
    \/ Stage1
    \/ Stage2
    \/ Stage3
    \/ Stage4
    \/ Stage5
    \/ Stage6
    \/ Finish
    \/ load_components
    \/ LoadAsr
    \/ LoadTranslator
    \/ LoadLlm
    \/ LoadTts
    \/ LoadIntentDetector
    \/ clear_conversation
    \/ Continue

Spec == Init /\ [][Next]_vars

(***************************************************************************)
(* Reading the trace of a call                                             *)
(***************************************************************************)

\* The positions of the trace where `call` was made.
At(call) == {i \in 1..Len(trace) : trace[i].call = call}

\* How often `call` was made in the current call.
Count(call) == Cardinality(At(call))

\* The positions where an instance was built for handle e.
Built(e) == {i \in 1..Len(trace) : trace[i].call = "new" /\ trace[i].arg = e}

\* The trace entry of the only `call` made.
The(call) == trace[CHOOSE i \in At(call) : TRUE]

\* The engine calls of process, in the order of its six stages.
StageCalls ==
    <<"transcribe", "ml_to_en", "detect", "chat", "en_to_ml", "synthesize">>

\* The stage a call belongs to; 0 for an entry that is no engine call.
StageOf(call) ==
    IF \E k \in 1..Len(StageCalls) : StageCalls[k] = call
    THEN CHOOSE k \in 1..Len(StageCalls) : StageCalls[k] = call
    ELSE 0

\* The stage whose exception ended the try block; 0 when none did.
RaisedStage ==
    IF \E k \in 1..Len(StageCalls) : raised.at = "stage" \o ToString(k)
    THEN CHOOSE k \in 1..Len(StageCalls) : raised.at = "stage" \o ToString(k)
    ELSE 0

\* A process (or process_text) call is in progress or has just returned.
InProcess == op \in {"process", "process_text"}

\* process has handed its record to the caller.
ProcessReturned == InProcess /\ pc = "returned"

(***************************************************************************)
(* C1.  For every process call the returned record has success = false     *)
(* exactly when error is a non-empty string, and success = true exactly    *)
(* when error is empty or None, whatever the message of the exception.     *)
(* The code stores str(e), which is empty for an exception built without   *)
(* a message, so this fails.                                               *)
(***************************************************************************)
C1_SuccessIffErrorEmpty ==
    ProcessReturned =>
        /\ (result.success = FALSE) <=> (result.error \notin {None, ""})
        /\ (result.success = TRUE) <=> (result.error \in {None, ""})

(***************************************************************************)
(* C2.  process never raises to its caller: whenever an engine of stages   *)
(* 1, 2, 4, 5, 6, or its lazy construction inside process, raises, the     *)
(* call still returns a record with success = false and the message of     *)
(* that exception in error.                                                *)
(***************************************************************************)
C2_ProcessNeverRaises ==
    InProcess =>
        /\ outcome # "raised"
        /\ raised # NoRaise => pc \in {"finish", "returned"}
        /\ (pc = "returned" /\ raised # NoRaise) =>
               /\ outcome = "returned"
               /\ result.success = FALSE
               /\ result.error = raised.msg

\* Witness of C2: the lazy construction of the LLM raised inside process
\* (no chat call was made) and the call returned the failure record.
C2_Witness ==
    /\ ProcessReturned
    /\ raised.at = "stage4"
    /\ entry["llm"] = 0
    /\ Count("chat") = 0
    /\ result.success = FALSE
    /\ result.error = "engine failure"

(***************************************************************************)
(* C3.  A failure of intent detection is never pipeline-fatal: if the      *)
(* Intent Detector raises during stage 3, the intent fields stay at their  *)
(* defaults and the response-generation, back-translation and synthesis    *)
(* stages still run.  In the code stage 3 shares the try block of the      *)
(* other stages, so the exception ends the call.                           *)
(***************************************************************************)
C3_IntentFailureNotFatal ==
    (ProcessReturned /\ raised.at = "stage3") =>
        /\ result.intent_type = ""
        /\ result.intent_description = ""
        /\ result.intent_confidence = 0
        /\ result.intent_entities = {}
        /\ Count("chat") = 1

C5_IntentDetectedOnce ==
    (/\ ProcessReturned
     /\ detect_intent
     /\ RaisedStage \notin {1, 2, 3}) =>
        /\ Count("detect") = 1
        /\ The("detect").arg = result.malayalam_text
        /\ The("detect").arg2 = result.english_text
        /\ \A i \in At("chat") : \A j \in At("detect") : j < i
        /\ LET intent == detect(result.malayalam_text, result.english_text)
           IN /\ result.intent_type = intent.type
              /\ result.intent_confidence = intent.confidence
              /\ result.intent_entities = intent.entities
              /\ result.intent_description = intent.description

(***************************************************************************)
(* C6.  When process runs on an orchestrator on which load_components was  *)
(* never called, each of the ASR, translation, LLM and TTS engines is      *)
(* built lazily at the stage that first needs it, and the call does not    *)
(* fail merely because the engine was not loaded beforehand.  Stated for   *)
(* every handle that is None when the call is entered: the first engine    *)
(* call on it comes right after the instance is built, no engine is ever   *)
(* called through a None handle, and a stage that fails before its engine  *)
(* call fails with a construction error (import, model load, unknown       *)
(* engine name), never for want of the handle.                             *)
(***************************************************************************)

\* The handle an engine call goes through.
HandleOf(call) ==
    CASE call = "transcribe" -> "asr"
      [] call \in {"ml_to_en", "en_to_ml"} -> "translator"
      [] call = "detect" -> "intent_detector"
      [] call = "chat" -> "llm"
      [] call = "synthesize" -> "tts"
      [] OTHER -> "none"

\* The positions of the engine calls made through handle e.
Invocations(e) == {i \in 1..Len(trace) : HandleOf(trace[i].call) = e}

\* The engines process loads lazily.
LazyEngines == {"asr", "translator", "llm", "tts"}

\* The messages of a failed construction.
ConstructionErrors ==
    ImportErrMsgs \cup ErrMsgs \cup {"Unknown ASR engine: " \o asr_engine}

C6_LazyConstruction ==
    InProcess =>
        /\ \A e \in LazyEngines : \A i \in Invocations(e) :
               /\ handle[e] # 0
               /\ (entry[e] = 0 /\ \A j \in Invocations(e) : i <= j) =>
                      /\ i > 1
                      /\ trace[i - 1].call = "new"
                      /\ trace[i - 1].arg = e
        /\ \A k \in {1, 2, 4, 5, 6} :
               (/\ RaisedStage = k
                /\ Count(StageCalls[k]) = 0
                /\ raised.msg # "Either audio_path or text_input must be provided")
                   => raised.msg \in ConstructionErrors

\* Witness of C6: a call on a fresh orchestrator built all four engines in
\* stage order and succeeded.
C6_Witness ==
    /\ ProcessReturned
    /\ \A e \in Engines : entry[e] = 0
    /\ result.success
    /\ Len(trace) = 9
    /\ trace[1].call = "new" /\ trace[1].arg = "asr"
    /\ trace[2].call = "transcribe"
    /\ trace[3].call = "new" /\ trace[3].arg = "translator"
    /\ trace[4].call = "ml_to_en"
    /\ trace[5].call = "new" /\ trace[5].arg = "llm"
    /\ trace[6].call = "chat"
    /\ trace[7].call = "en_to_ml"
    /\ trace[8].call = "new" /\ trace[8].arg = "tts"
    /\ trace[9].call = "synthesize"

(***************************************************************************)
(* C7.  Over any sequential history of load_components, process,           *)
(* process_text and clear_conversation calls, each of the five handles is  *)
(* constructed at most once; re-invoking load_components after a           *)
(* successful load constructs nothing and leaves every handle unchanged.   *)
(***************************************************************************)

\* The handles load_components is to set.
Needed == IF detect_intent THEN Engines ELSE Engines \ {"intent_detector"}

C7_ConstructedAtMostOnce ==
    /\ \A e \in Engines :
           /\ constructed[e] <= 1
           /\ handle[e] <= constructed[e]
           /\ entry[e] # 0 => (handle[e] = entry[e] /\ Built(e) = {})
    /\ (op = "load_components" /\ \A e \in Needed : entry[e] # 0) =>
           /\ handle = entry
           /\ Count("new") = 0
           /\ outcome # "raised"

\* Witness of C7: load_components returned a second time, after every
\* handle including the intent detector had been set, and built nothing.
C7_Witness ==
    /\ op = "load_components"
    /\ pc = "returned"
    /\ outcome = "returned"
    /\ detect_intent
    /\ \A e \in Engines : entry[e] = 1 /\ handle[e] = 1 /\ constructed[e] = 1
    /\ Count("_load") = Cardinality(Engines)

(***************************************************************************)
(* C8.  When stage k of process (ASR, input translation, response          *)
(* generation, back-translation, synthesis) raises, no engine of a later   *)
(* stage is invoked in that call, every output field written by the        *)
(* stages before k keeps its value, and every output field of stage k and  *)
(* later stays at its default.                                             *)
(***************************************************************************)
C8_PartialRecord ==
    (ProcessReturned /\ RaisedStage \in {1, 2, 4, 5, 6}) =>
        LET k == RaisedStage
            d == PipelineResult(args.audio_path)
        IN /\ result.success = FALSE
           /\ \A i \in 1..Len(trace) : StageOf(trace[i].call) <= k
           /\ k > 1 => result.malayalam_text =
                           (IF Truthy(args.audio_path)
                            THEN The("transcribe").out ELSE args.text_input)
           /\ k > 2 => result.english_text =
                           (IF args.input_language = "ml"
                            THEN The("ml_to_en").out ELSE result.malayalam_text)
           /\ (k > 3 /\ Count("detect") = 1) =>
                  result.intent_type =
                      detect(result.malayalam_text, result.english_text).type
           /\ k > 4 => result.english_response = The("chat").out
           /\ k > 5 => result.malayalam_response = The("en_to_ml").out
           /\ k <= 1 => /\ result.malayalam_text = d.malayalam_text
                        /\ result.asr_time_ms = d.asr_time_ms
           /\ k <= 2 => /\ result.english_text = d.english_text
                        /\ result.translation_ml_en_time_ms =
                               d.translation_ml_en_time_ms
                        /\ result.intent_type = d.intent_type
                        /\ result.intent_description = d.intent_description
                        /\ result.intent_confidence = d.intent_confidence
                        /\ result.intent_entities = d.intent_entities
           /\ k <= 4 => /\ result.english_response = d.english_response
                        /\ result.llm_time_ms = d.llm_time_ms
           /\ k <= 5 => /\ result.malayalam_response = d.malayalam_response
                        /\ result.translation_en_ml_time_ms =
                               d.translation_en_ml_time_ms
           /\ /\ result.audio_output = d.audio_output
              /\ result.tts_time_ms = d.tts_time_ms

\* Witness of C8: response generation raised on an audio query; the texts
\* of stages 1-2 and the intent are in the record, the rest is default.
C8_Witness ==
    /\ ProcessReturned
    /\ RaisedStage = 4
    /\ Count("chat") = 1
    /\ result.malayalam_text = "samayam"
    /\ result.english_text = "what time is it"
    /\ result.intent_type = "time"
    /\ result.english_response = ""
    /\ result.malayalam_response = ""
    /\ result.audio_output = None
    /\ result.success = FALSE

(***************************************************************************)
(* C9.  Within one process call the stages run strictly in the order ASR,  *)
(* input translation, intent detection, response generation,               *)
(* back-translation, synthesis, none starting before the previous one has  *)
(* finished, and success is true in the returned record only after         *)
(* synthesis has completed.                                                *)
(***************************************************************************)

\* The stage the call is at; past the last stage once the try is left.
PcStage ==
    IF \E k \in 1..Len(StageCalls) : pc = "stage" \o ToString(k)
    THEN CHOOSE k \in 1..Len(StageCalls) : pc = "stage" \o ToString(k)
    ELSE Len(StageCalls) + 1

\* The engine calls of the trace are in stage order, each stage's call made
\* at most once and only by a stage the call has reached and left.
StrictStageOrder ==
    /\ \A i, j \in 1..Len(trace) :
           (i < j /\ StageOf(trace[i].call) > 0 /\ StageOf(trace[j].call) > 0)
               => StageOf(trace[i].call) < StageOf(trace[j].call)
    /\ \A i \in 1..Len(trace) : StageOf(trace[i].call) < PcStage

\* A returned success means synthesis was the last thing done and returned.
SuccessOnlyAfterSynthesis ==
    (pc = "returned" /\ result.success) =>
        /\ raised = NoRaise
        /\ Count("synthesize") = 1
        /\ trace[Len(trace)].call = "synthesize"
        /\ The("synthesize").out = result.audio_output
        /\ result.audio_output # None

\* As claimed: moreover each engine is invoked at most once per call.
C9_EachEngineOnce ==
    InProcess =>
        /\ StrictStageOrder
        /\ SuccessOnlyAfterSynthesis
        /\ \A e \in Engines : Cardinality(Invocations(e)) <= 1

\* Amended: each stage invokes its engine at most once per call; the
\* translation engine serves two stages and is invoked at most twice, once
\* per direction; every other engine at most once.
C9_EachStageOnce ==
    InProcess =>
        /\ StrictStageOrder
        /\ SuccessOnlyAfterSynthesis
        /\ \A k \in 1..Len(StageCalls) : Count(StageCalls[k]) <= 1
        /\ \A e \in Engines \ {"translator"} : Cardinality(Invocations(e)) <= 1
        /\ Cardinality(Invocations("translator")) <= 2

\* Witness of C9: a Malayalam audio query ran all six stages and
\* succeeded, the translator invoked once in each direction.
C9_Witness ==
    /\ ProcessReturned
    /\ result.success
    /\ Count("transcribe") = 1
    /\ Count("detect") = 1
    /\ Count("chat") = 1
    /\ Cardinality(Invocations("translator")) = 2
    /\ Count("synthesize") = 1

(***************************************************************************)
(* C10.  load_components attempts the engines strictly in the order ASR,   *)
(* translation, LLM, TTS, intent detector (the last only when intent       *)
(* detection is enabled); the first construction failure is raised to the  *)
(* caller, the engines earlier in the order remain loaded and no engine    *)
(* later in the order is attempted.                                        *)
(***************************************************************************)

\* The order of the loaders in load_components.
LoadOrder == <<"asr", "translator", "llm", "tts", "intent_detector">>

\* How many loaders load_components runs.
LastLoader == IF detect_intent THEN Len(LoadOrder) ELSE Len(LoadOrder) - 1

C10_LoadOrder ==
    op = "load_components" =>
        LET att == SelectSeq(trace, LAMBDA ev : ev.call = "_load")
            n == Len(att)
        IN /\ n <= LastLoader
           /\ \A i \in 1..n : att[i].arg = LoadOrder[i]
           /\ raised # NoRaise =>
                  /\ pc = "returned"
                  /\ outcome = "raised"
                  /\ raised.at = "_load_" \o LoadOrder[n]
           /\ outcome = "raised" =>
                  /\ raised # NoRaise
                  /\ \A i \in 1..(n - 1) : handle[LoadOrder[i]] # 0
                  /\ \A i \in (n + 1)..Len(LoadOrder) :
                         /\ handle[LoadOrder[i]] = entry[LoadOrder[i]]
                         /\ Built(LoadOrder[i]) = {}
           /\ outcome = "returned" =>
                  /\ n = LastLoader
                  /\ \A i \in 1..LastLoader : handle[LoadOrder[i]] # 0

\* Witness of C10: the LLM failed to load; ASR and translator stay loaded,
\* TTS and the intent detector were not attempted.
C10_Witness ==
    /\ op = "load_components"
    /\ pc = "returned"
    /\ outcome = "raised"
    /\ raised.at = "_load_llm"
    /\ Count("_load") = 3
    /\ handle["asr"] # 0
    /\ handle["translator"] # 0
    /\ handle["tts"] = 0
    /\ handle["intent_detector"] = 0
    /\ detect_intent

(***************************************************************************)
(* C11.  clear_conversation empties the conversation history of the LLM    *)
(* and changes nothing else: the five handles, the system prompt, the      *)
(* loaded models and the configuration of the orchestrator are unchanged,  *)
(* and while no LLM handle exists the call does nothing and builds         *)
(* nothing.                                                                *)
(***************************************************************************)
C11_ClearConversationFrame ==
    [][(pc = "idle" /\ op' = "clear_conversation") =>
           /\ conversation_history' = <<>>
           /\ handle' = handle
           /\ constructed' = constructed
           /\ system_prompt' = system_prompt
           /\ max_memory_messages' = max_memory_messages
           /\ llm_model' = llm_model
           /\ asr_model' = asr_model
           /\ translator_models' = translator_models
           /\ asr_engine' = asr_engine
           /\ detect_intent' = detect_intent
           /\ Len(trace') = (IF handle["llm"] # 0 THEN 1 ELSE 0)
           /\ \A i \in 1..Len(trace') : trace'[i].call = "clear_history"
           /\ outcome' = "returned"]_vars

\* Witness of C11: clear_conversation discarded a remembered turn of a
\* loaded LLM.
C11_Witness ==
    /\ op = "clear_conversation"
    /\ pc = "returned"
    /\ Count("clear_history") = 1
    /\ Len(The("clear_history").arg) = 2
    /\ conversation_history = <<>>
    /\ handle["llm"] = 1
    /\ llm_model
    /\ system_prompt = VoicePrompt

(***************************************************************************)
(* C12.  After any sequence of chat and clear_history calls on one         *)
(* QwenLLM with limit N = max_memory_messages, the stored history holds at *)
(* most N turns (2N messages) and is exactly the most recent remembered    *)
(* messages in their original order: trimming removes from the oldest end  *)
(* only.                                                                   *)
(***************************************************************************)
C12_HistoryBounded ==
    pc = "qwen" =>
        LET kept == IF Len(remembered) <= 2 * max_memory_messages
                    THEN Len(remembered) ELSE 2 * max_memory_messages
        IN /\ Len(conversation_history) <= 2 * max_memory_messages
           /\ conversation_history =
                  SubSeq(remembered, Len(remembered) - kept + 1, Len(remembered))

(***************************************************************************)
(* C13.  total_time_ms is written on every return path of process, the     *)
(* successful one and every failing one, as the time elapsed from entry to *)
(* return; the clock being monotonic, it is at least the sum of the stage  *)
(* times recorded in the same record.                                      *)
(***************************************************************************)

\* The sum of the five stage times of a record.
StageTimes(r) ==
    r.asr_time_ms + r.translation_ml_en_time_ms + r.llm_time_ms
        + r.translation_en_ml_time_ms + r.tts_time_ms

C13_TotalTime ==
    ProcessReturned =>
        /\ result.total_time_ms = now * 1000
        /\ result.total_time_ms >= StageTimes(result)

\* Witness of C13: a call that failed at synthesis after four timed
\* stages returned with the total time written, larger than their sum.
C13_Witness ==
    /\ ProcessReturned
    /\ RaisedStage = 6
    /\ result.asr_time_ms > 0
    /\ result.translation_ml_en_time_ms > 0
    /\ result.llm_time_ms > 0
    /\ result.translation_en_ml_time_ms > 0
    /\ result.tts_time_ms = 0
    /\ result.total_time_ms > StageTimes(result)

(***************************************************************************)
(* C14.  process_text(text, lang, out) is process(text_input=text,         *)
(* input_language=lang, output_audio_path=out): for every non-empty text   *)
(* it neither builds nor invokes the ASR engine, it records the text as    *)
(* the recognized text with asr_time_ms = 0, and from there runs the       *)
(* stages of process.                                                      *)
(***************************************************************************)

\* The engine calls of the trace, in order.
EngineCalls == SelectSeq(trace, LAMBDA ev : StageOf(ev.call) > 0)

C14_ProcessTextSkipsAsr ==
    (op = "process_text" /\ Truthy(args.text_input)) =>
        /\ args.audio_path = None
        /\ result.audio_input = None
        /\ Count("transcribe") = 0
        /\ Built("asr") = {}
        /\ handle["asr"] = entry["asr"]
        /\ raised.at # "stage1"
        /\ pc # "stage1" =>
               /\ result.malayalam_text = args.text_input
               /\ result.asr_time_ms = 0
        /\ pc \in {"stage2", "stage3"} => raised = NoRaise
        /\ (pc = "returned" /\ result.success) =>
               /\ Len(EngineCalls) >= 3
               /\ \A i \in 1..Len(EngineCalls) : \A k \in 2..6 :
                      EngineCalls[i].call = StageCalls[k] =>
                          \/ k >= 4
                          \/ k = 2 /\ i = 1 /\ args.input_language = "ml"
                          \/ k = 3 /\ detect_intent /\ entry["intent_detector"] # 0
               /\ Count("chat") = 1
               /\ The("chat").arg = result.english_text
               /\ Count("en_to_ml") = 1
               /\ Count("synthesize") = 1
               /\ args.input_language = "ml" => Count("ml_to_en") = 1

\* Witness of C14: process_text on a Malayalam text returned success on a
\* pipeline whose ASR engine was never built.
C14_Witness ==
    /\ op = "process_text"
    /\ pc = "returned"
    /\ result.success
    /\ args.text_input = "Hello"
    /\ args.input_language = "ml"
    /\ handle["asr"] = 0
    /\ result.malayalam_text = "Hello"
    /\ result.asr_time_ms = 0
    /\ Len(EngineCalls) = 4

(***************************************************************************)
(* C15.  In keyword detection the category with the highest non-zero       *)
(* keyword-substring count wins, and among several categories with that    *)
(* count the one declared first in the keyword table (greeting, weather,   *)
(* time, reminder, calculation, question, command) is returned, for every  *)
(* input text.                                                             *)
(***************************************************************************)

\* The order of the categories in the keyword table.
TaxonomyOrder ==
    <<"greeting", "weather", "time", "reminder", "calculation", "question",
      "command">>

\* How many keywords of a category occur in the lower-cased text.
KeywordCount(type, text_lower) ==
    LET i == CHOOSE j \in 1..Len(INTENT_PATTERNS) : INTENT_PATTERNS[j].type = type
    IN Score(INTENT_PATTERNS[i].keywords, text_lower)

\* The text a detect call analysed, lower-cased.
Analysed == Lower(analysis_source(detection.text, detection.english_text))

C15_KeywordWinner ==
    (pc = "detector" /\ detection.text # None) =>
        LET n(k) == KeywordCount(TaxonomyOrder[k], Analysed)
            K == 1..Len(TaxonomyOrder)
        IN IF \A k \in K : n(k) = 0
           THEN detection.keyword = None
           ELSE \E w \in K :
                    /\ detection.keyword = TaxonomyOrder[w]
                    /\ n(w) > 0
                    /\ \A k \in K : n(k) <= n(w)
                    /\ \A k \in K : n(k) = n(w) => w <= k

\* Witness of C15: "what time is it" has two time keywords and two question
\* keywords; time, declared before question, is returned.
C15_Witness ==
    /\ pc = "detector"
    /\ detection.text = "what time is it"
    /\ detection.english_text = None
    /\ KeywordCount("time", Analysed) = 2
    /\ KeywordCount("question", Analysed) = 2
    /\ detection.keyword = "time"

(***************************************************************************)
(* C16.  With model fallback disabled, detect is a deterministic function  *)
(* of the lower-cased analysis text (the translated text when present,     *)
(* else the original): a keyword match gives the winning category with     *)
(* confidence 0.8, empty entities and the canned description of the        *)
(* category; no match gives general with confidence 0.5 and description    *)
(* "General conversation or query"; a repeated call on the same text gives *)
(* the same result.                                                        *)
(***************************************************************************)

\* What a detect call answered, without the texts it echoes.
Answer(d) ==
    [type |-> d.intent.type, confidence |-> d.intent.confidence,
     entities |-> d.intent.entities, description |-> d.intent.description]

C16_KeywordOnlyDetect ==
    /\ [](pc = "detector" /\ ~use_llm /\ detection.text # None =>
            /\ detection.returned
            /\ detection.escaped = NoExc
            /\ ~detection.chat_called
            /\ detector_llm = 0
            /\ IF detection.keyword # None
               THEN /\ detection.keyword = detection.intent.type
                    /\ detection.intent.type \in
                           {TaxonomyOrder[k] : k \in 1..Len(TaxonomyOrder)}
                    /\ KeywordCount(detection.intent.type, Analysed) > 0
                    /\ detection.intent.confidence = 80
                    /\ detection.intent.entities = {}
                    /\ detection.intent.description =
                           get_intent_description(detection.intent.type)
                    /\ detection.intent.description # "General query"
               ELSE /\ \A k \in 1..Len(TaxonomyOrder) :
                           KeywordCount(TaxonomyOrder[k], Analysed) = 0
                    /\ detection.intent.type = "general"
                    /\ detection.intent.confidence = 50
                    /\ detection.intent.entities = {}
                    /\ detection.intent.description =
                           "General conversation or query")
    /\ [][(/\ pc = "detector" /\ ~use_llm
           /\ detection.text # None /\ detection'.text # None
           /\ Lower(analysis_source(detection'.text, detection'.english_text))
                  = Analysed)
              => Answer(detection') = Answer(detection)]_vars

\* Witness of C16: with the fallback disabled, a text without keywords was
\* answered with the general default, the translation being the text
\* analysed.
C16_Witness ==
    /\ pc = "detector"
    /\ ~use_llm
    /\ detection.text = "hello how are you"
    /\ detection.english_text = "okay"
    /\ detection.keyword = None
    /\ detection.intent.type = "general"
    /\ detection.intent.confidence = 50

(***************************************************************************)
(* C17.  detect("hello how are you") takes the keyword path and returns    *)
(* greeting with confidence 0.8 and the description "User is greeting or   *)
(* starting a conversation", although question matches as many keywords    *)
(* ("how", "are you") as greeting does ("hello", "how are you").           *)
(***************************************************************************)
C17_HelloHowAreYou ==
    (/\ pc = "detector"
     /\ detection.text = "hello how are you"
     /\ ~Truthy(detection.english_text)) =>
        /\ detection.returned
        /\ ~detection.chat_called
        /\ detection.intent.type = "greeting"
        /\ detection.intent.confidence = 80
        /\ detection.intent.description =
               "User is greeting or starting a conversation"
        /\ \A kw \in {"hello", "how are you", "how", "are you"} :
               Contains(kw, Analysed)
        /\ KeywordCount("greeting", Analysed) = 2
        /\ KeywordCount("question", Analysed) = 2

\* Witness of C17: the call was made on a detector with the fallback on
\* and came back as greeting without the LLM being built.
C17_Witness ==
    /\ pc = "detector"
    /\ use_llm
    /\ detection.text = "hello how are you"
    /\ detection.english_text = None
    /\ detection.intent.type = "greeting"
    /\ detector_llm = 0

(***************************************************************************)
(* C18.  On the model-fallback path of detect (no keyword match, fallback  *)
(* enabled), whenever the model output has no parseable INTENT line or a   *)
(* label outside the taxonomy, the Intent returned is general with         *)
(* description "General query", whatever ENTITIES and DESCRIPTION lines    *)
(* are present, with confidence 0.85 if the model call returned and 0.5 if *)
(* it raised.                                                              *)
(***************************************************************************)

\* No line of the response gives a label of the taxonomy.
NoLabel(response) ==
    \A i \in 1..Len(response) :
        StartsWith(Strip(response[i]), "INTENT:") =>
            Lower(Strip(Remove(Strip(response[i]), "INTENT:")))
                \notin IntentTypeValues

C18_FallbackDefault ==
    (/\ pc = "detector" /\ use_llm /\ detection.returned
     /\ detection.keyword = None /\ detection.chat_called) =>
        /\ detection.chat_exc # NoExc =>
               /\ detection.intent.type = "general"
               /\ detection.intent.description = "General query"
               /\ detection.intent.confidence = 50
        /\ (detection.chat_exc = NoExc /\ NoLabel(detection.response)) =>
               /\ detection.intent.type = "general"
               /\ detection.intent.description = "General query"
               /\ detection.intent.confidence = 85

(***************************************************************************)
(* C19.  No exception escapes IntentDetector.detect for any text: every    *)
(* error of the fallback engine, raised while it is constructed (_get_llm) *)
(* or while it is called (chat), is caught and downgraded to a             *)
(* general-intent result.                                                  *)
(***************************************************************************)
C19_DetectNeverRaises ==
    (pc = "detector" /\ detection.text # None) =>
        /\ detection.escaped = NoExc
        /\ detection.returned
        /\ detection.chat_exc # NoExc =>
               /\ detection.intent.type = "general"
               /\ detection.intent.confidence = 50

(***************************************************************************)
(* C20.  For every AgentOrchestrator.process call the handler is chosen    *)
(* solely by the intent computed at classify (information_query to         *)
(* info_agent, task_management to task_agent, general_chat and unknown to  *)
(* chat_agent in full-graph mode), exactly one handler runs, and the final *)
(* response is that handler's fragment and holds no fragment of a handler  *)
(* that was not invoked.                                                   *)
(***************************************************************************)

\* The handler nodes.
Handlers == {"info_agent", "task_agent", "chat_agent"}

\* The handlers that ran in the call, in order.
HandlersRun == SelectSeq(agent_ran, LAMBDA n : n \in Handlers)

C20_ExactlyOneHandler ==
    (pc = "agent" /\ agent_pc \in {"returned", "raised"}) =>
        /\ Len(HandlersRun) = 1
        /\ agent_state.intent = classify_intent(agent_state.user_input)
        /\ graph =>
               HandlersRun[1] =
                   (CASE agent_state.intent = "information_query" -> "info_agent"
                      [] agent_state.intent = "task_management" -> "task_agent"
                      [] OTHER -> "chat_agent")
        /\ agent_result.response =
               HandlerResponse(HandlersRun[1], agent_state.user_input)
        /\ \A h \in Handlers \ {HandlersRun[1]} :
               ~Contains(HandlerResponse(h, ""), agent_result.response)

(***************************************************************************)
(* C21.  For every input that classify labels smart_home, process routes   *)
(* the request to the chat handler and returns the chat handler's fragment *)
(* without surfacing any error, in the full-graph mode as well as in the   *)
(* simplified fallback mode.                                               *)
(***************************************************************************)
C21_SmartHomeFallsToChat ==
    (/\ pc = "agent"
     /\ agent_pc \in {"returned", "raised"}
     /\ classify_intent(agent_state.user_input) = "smart_home") =>
        /\ agent_pc = "returned"
        /\ agent_result.exc = NoExc
        /\ HandlersRun = <<"chat_agent">>
        /\ agent_result.response =
               HandlerResponse("chat_agent", agent_state.user_input)

(***************************************************************************)
(* C22.  _generate_response sets final_response to the space-joined        *)
(* concatenation, in insertion order, of the response field of every       *)
(* handler output that has one, and to the fixed string "I couldn't        *)
(* process your request." exactly when no handler output has a response    *)
(* field.                                                                  *)
(***************************************************************************)

\* The outputs of the state that have a response field, in insertion order.
WithResponse == SelectSeq(agent_state.agent_outputs, LAMBDA o : o.response # None)

C22_SpaceJoinedResponses ==
    (pc = "generate" /\ agent_pc = "return") =>
        LET w == WithResponse
        IN /\ Len(w) = 0 =>
                  agent_state.final_response = "I couldn't process your request."
           /\ Len(w) = 1 => agent_state.final_response = w[1].response
           /\ Len(w) = 2 =>
                  agent_state.final_response =
                      w[1].response \o " " \o w[2].response
           /\ Len(w) = 3 =>
                  agent_state.final_response =
                      w[1].response \o " " \o w[2].response \o " " \o w[3].response
           /\ Len(w) <= 3
           /\ agent_state.final_response = "I couldn't process your request."
                  <=> Len(w) = 0

\* Three outputs, one without a response, one with an empty one.
C22_Witness ==
    /\ pc = "generate"
    /\ agent_pc = "return"
    /\ Len(agent_state.agent_outputs) = 3
    /\ Len(WithResponse) = 2
    /\ WithResponse[1].response = ""
    /\ agent_state.final_response = " " \o HandlerResponse("info_agent", "hi")

(***************************************************************************)
(* C23.  When the graph is None (process called before setup included),    *)
(* process runs exactly classify, chat handler, aggregate in that order    *)
(* and returns a mapping with the keys response, intent and language, as   *)
(* the full-graph mode does, where response is non-empty for every         *)
(* non-empty input and language is the language argument passed in.        *)
(***************************************************************************)

\* The call is over: process has returned or raised.
CallOver == pc = "agent" /\ agent_pc \in {"returned", "raised"}

\* A call entered with the graph None never raises ...
C23_FallbackNeverRaises ==
    (pc = "agent" /\ ~graph /\ agent_pc' # agent_pc) => agent_pc' # "raised"

\* ... and returns after exactly the three nodes.
C23_FallbackReturn ==
    (pc = "agent" /\ ~graph /\ agent_pc = "return" /\ agent_pc' = "returned") =>
        /\ agent_ran' = <<"intent_classifier", "chat_agent", "response_generator">>
        /\ DOMAIN agent_result' = {"response", "intent", "language", "exc"}
        /\ agent_result'.exc = NoExc
        /\ agent_result'.response # None
        /\ agent_state'.user_input # "" => agent_result'.response # ""
        /\ agent_result'.response =
               HandlerResponse("chat_agent", agent_state'.user_input)
        /\ agent_result'.language = initial_state(agent_state'.user_input,
                                                  agent_state'.language).language
        /\ agent_result'.intent = classify_intent(agent_state'.user_input)

C23_FallbackMode ==
    [][C23_FallbackReturn /\ C23_FallbackNeverRaises]_vars

\* A question and a smart-home request answered in fallback mode, one of
\* them before any setup.
C23_Witness ==
    /\ CallOver
    /\ ~graph
    /\ agent_pc = "returned"
    /\ agent_result.intent \in {"information_query", "smart_home"}
    /\ agent_result.language = "ml"
    /\ agent_ran = <<"intent_classifier", "chat_agent", "response_generator">>

(***************************************************************************)
(* C24.  IntentClassifier.classify in keyword mode returns the intent      *)
(* whose confidence min(matches/len(keywords) + 0.3, 1.0) is strictly      *)
(* highest, the first-declared intent among equal confidences, and         *)
(* "unknown" with confidence 0.0 when no keyword occurs in the lower-cased *)
(* text; the ml and llm model types return the same result; so "hello how  *)
(* are you", "what is the weather today" and "remind me to call mom"       *)
(* classify as greeting, weather and reminder.                             *)
(***************************************************************************)

\* The confidence (in sixtieths) of the i-th declared intent for the text
\* last classified, 0 when none of its keywords occurs.
ConfidenceOf(i) ==
    LET text == Lower(classified.text)
        n == Cardinality(INTENTS[i].keywords)
        matches == Cardinality({kw \in INTENTS[i].keywords : Contains(kw, text)})
    IN IF matches = 0 THEN 0
       ELSE IF 10 * matches >= 7 * n THEN 60
       ELSE (60 * matches) \div n + 18

C24_KeywordClassify ==
    (pc = "nlu" /\ classified.text # None) =>
        LET I == 1..Len(INTENTS)
        IN /\ (\A i \in I : ConfidenceOf(i) = 0) =>
                  classified.intent = "unknown" /\ classified.confidence = 0
           /\ (\E i \in I : ConfidenceOf(i) > 0) =>
                  \E i \in I :
                      /\ classified.intent = INTENTS[i].intent
                      /\ classified.confidence = ConfidenceOf(i)
                      /\ \A j \in I : ConfidenceOf(j) <= ConfidenceOf(i)
                      /\ \A j \in I : j < i => ConfidenceOf(j) < ConfidenceOf(i)
           /\ classified.text = "hello how are you" =>
                  classified.intent = "greeting"
           /\ classified.text = "what is the weather today" =>
                  classified.intent = "weather"
           /\ classified.text = "remind me to call mom" =>
                  classified.intent = "reminder"

\* The llm classifier given a text in which two intents reach the capped
\* confidence, the later-declared one named first.
C24_Witness ==
    /\ pc = "nlu"
    /\ model_type = "llm"
    /\ classified.text = "weather temperature rain hello hi namaste vanakkam"
    /\ classified.intent = "greeting"
    /\ classified.confidence = 60
    /\ ConfidenceOf(3) = 60

(***************************************************************************)
(* C25.  Whenever load_components returns without raising, the             *)
(* speech-recognition, translation and response-generation engines are     *)
(* fully ready (handle set and model loaded), for every history of earlier *)
(* calls on that pipeline, an earlier load_components or process call that *)
(* failed while loading one of those models included.                      *)
(***************************************************************************)
C25_LoadedMeansReady ==
    (op = "load_components" /\ outcome = "returned") =>
        /\ handle["asr"] # 0
        /\ asr_model
        /\ handle["translator"] # 0
        /\ translator_models = {"indic-en", "en-indic"}
        /\ handle["llm"] # 0
        /\ llm_model

(***************************************************************************)
(* C26.  When two process calls on the same freshly created pipeline       *)
(* interleave at the granularity of the "handle is None" check and the     *)
(* handle assignment in the _load_* helpers, each engine is still          *)
(* constructed at most once and both calls use the same engine instance.   *)
(***************************************************************************)
C26_OnceUnderInterleaving ==
    pc = "race" =>
        /\ \A e \in Engines : constructed[e] <= 1
        /\ \A e \in Engines : \A t, u \in Threads :
               (threads[t].used[e] # 0 /\ threads[u].used[e] # 0) =>
                   threads[t].used[e] = threads[u].used[e]

(***************************************************************************)
(* C27.  One process call changes the conversation history by appending    *)
(* exactly one (user: English text, assistant: reply) pair if and only if  *)
(* the response-generation stage completed; the history is unchanged when  *)
(* the call fails at or before response generation and is still extended   *)
(* when the call fails later (back-translation or synthesis) and returns   *)
(* success = false; intent detection never adds to it.                     *)
(***************************************************************************)

\* The step is one of a process call, its entry and its return included.
ProcessStep == op' \in {"process", "process_text"} /\ pc # "returned"

\* The step on which the response-generation stage completes.
LlmStageCompletes == pc = "stage4" /\ pc' = "stage5"

C27_HistoryStep ==
    ProcessStep =>
        IF LlmStageCompletes
        THEN LET pair == <<Message("user", result.english_text),
                           Message("assistant", result'.english_response)>>
             IN /\ conversation_history' = conversation_history \o pair
                /\ remembered' = remembered \o pair
        ELSE UNCHANGED <<conversation_history, remembered>>

ChatStep == pc = "qwen" /\ chat_call'.user_input # None

C28_ChatStep ==
    ChatStep =>
        IF chat_call'.exc # NoExc \/ ~chat_call'.remember
        THEN UNCHANGED <<conversation_history, remembered>>
        ELSE LET pair == <<Message("user", chat_call'.user_input),
                           Message("assistant", chat_call'.content)>>
                 n == Len(conversation_history')
             IN /\ remembered' = remembered \o pair
                /\ n >= 2
                /\ SubSeq(conversation_history', n - 1, n) = pair
                /\ \E k \in 0..Len(conversation_history) :
                       conversation_history' =
                           SubSeq(conversation_history, k + 1,
                                  Len(conversation_history)) \o pair

C28_Alternates ==
    pc = "qwen" =>
        /\ Len(conversation_history) % 2 = 0
        /\ \A i \in 1..Len(conversation_history) :
               conversation_history[i].role =
                   IF i % 2 = 1 THEN "user" ELSE "assistant"

C28_HistoryFrame == []C28_Alternates /\ [][C28_ChatStep]_vars

\* A chat whose generation raised after two turns had been remembered.
C28_Witness ==
    /\ pc = "qwen"
    /\ chat_call.user_input # None
    /\ chat_call.exc # NoExc
    /\ chat_call.remember
    /\ chat_call.messages # <<>>
    /\ Len(conversation_history) = 4

(***************************************************************************)
(* C29.  For every chat call, the messages given to the model are the      *)
(* system prompt, then every message currently retained in the             *)
(* conversation history (up to N turns = 2N messages, N =                  *)
(* max_memory_messages) in order, then the current user input; no retained *)
(* message is left out of the context.                                     *)
(***************************************************************************)
C29_ContextStep ==
    (ChatStep /\ chat_call'.messages # <<>>) =>
        chat_call'.messages =
            <<Message("system", system_prompt)>> \o conversation_history
                \o <<Message("user", chat_call'.user_input)>>

C29_WholeHistoryInContext == [][C29_ContextStep]_vars

(***************************************************************************)
(* C30.  For every input, process in fallback mode and in full-graph mode  *)
(* return the same intent and language, and for every input that classify  *)
(* labels general_chat they return the identical response; classify always *)
(* yields one of information_query, task_management, smart_home,           *)
(* general_chat (checked in that priority order) and never unknown or      *)
(* None, and no state from one process call is visible to the next.        *)
(***************************************************************************)

\* What process returns for the call's arguments when the graph is None.
FallbackResult ==
    LET s == generate_response(
                 run_agent("chat_agent",
                     [initial_state(agent_state.user_input, agent_state.language)
                         EXCEPT !.intent = classify_intent(agent_state.user_input)]))
    IN [response |-> s.final_response, intent |-> s.intent,
        language |-> s.language, exc |-> NoExc]

C30_ModesAgree ==
    CallOver =>
        /\ agent_pc = "returned"
        /\ agent_result.intent = FallbackResult.intent
        /\ agent_result.language = FallbackResult.language
        /\ agent_result.intent = "general_chat" =>
               agent_result.response = FallbackResult.response
        /\ agent_state.intent \in {"information_query", "task_management",
                                   "smart_home", "general_chat"}
        /\ Len(agent_state.agent_outputs) = 1

====
